---- MODULE Spec2Model ----
(***************************************************************************)
(* A model of the multimodal digit-recognition web app: the three pages    *)
(* that feed the ONNX inference engine (EvalPage, VoicePage,               *)
(* HandwritingPage), the session cache of lib/onnx, and the pure           *)
(* conditioning functions of lib/audio, lib/melSpectrogram and             *)
(* lib/preprocessMnist.                                                    *)
(*                                                                         *)
(* JavaScript runs each handler to its next await without interruption, so *)
(* one action is one such run: from the event (or the settling of the      *)
(* awaited promise) to the next await or the end of the handler.           *)
(*                                                                         *)
(* JS arrays and the small typed arrays are functions over 0..n-1, indexed *)
(* as in the source; the Float32Arrays of samples, mel powers and pixel    *)
(* intensities are sequences read with At(a, i).  Float values are kept    *)
(* exact where the code only copies or compares them, and symbolic where   *)
(* it does floating-point arithmetic.                                      *)
(***************************************************************************)
EXTENDS Integers, FiniteSets, Sequences, TLC

VARIABLES
    (* App.tsx *)
    tab,                 \* the mounted page
    effects,             \* "pending" until the mounted page's useEffects ran
    (* lib/onnx (src/unnamed/part_000), module-level state *)
    ortConfigured, imageSessionPromise, speechSessionPromise,
    ortCalls,            \* how often InferenceSession.create was started for
                         \* each model, ort.env was configured, and a call
                         \* found a promise settled as 'error' (counted up to 2)
    (* the inference engine: the tensor of the session.run call in flight *)
    runTensor,
    (* EvalPage.tsx: React state *)
    evSession, evModelStatus, dataset, dataStatus,
    running, done, total, correct, conf,
    (* EvalPage.tsx: the locals of the runEval call in flight *)
    evPc, evI, localCorrect, localConf,
    evalRuns,            \* how many times runEval got past its guard
    (* lib/audio: the argument and the result of one call of a function *)
    auInput, auRate, auTarget, auOp, auResult,
    auAlias,             \* which object the call returned
    (* lib/melSpectrogram: module-level caches *)
    cachedWindow, cachedFilters,
    built,               \* how often the window and the filterbank were built, and
                         \* how many calls asked for them (counted up to 2)
    (* lib/melSpectrogram: the argument and the result of one call *)
    melSamples, melOp, melResult,
    (* VoicePage.tsx: React state *)
    speechSession, speechModelStatus, aiBusy, digit, aiProbs, err,
    (* VoicePage.tsx: the runAiOnce / runAiFromFile call in flight *)
    vPc,
    (* VoicePage.tsx: the browser mode; recPc is the recognizer's state *)
    mode, speechSupported, listening, transcript, recPc,
    melInput,            \* the buffer passed to melSpectrogram128x32From16k by the call in flight
    (* lib/preprocessMnist: the argument and the result of one call *)
    preCanvas, preCtx, preOp, preResult,
    (* one call of another pure function: its name, arguments and result *)
    fnOp, fnArgs, fnResult,
    (* HandwritingPage.tsx: refs and React state *)
    hwSession, hwModelStatus, canvas, history, isDrawing,
    prediction, probs, busy, previewHost,
    (* HandwritingPage.tsx: the recognize / loadImageToCanvas call in flight *)
    hPc, loadPc,
    snapshots            \* how many times snapshotForUndo ran

appVars  == <<tab, effects>>
onnxVars == <<ortConfigured, imageSessionPromise, speechSessionPromise,
              ortCalls>>
evalVars == <<evSession, evModelStatus, dataset, dataStatus, running, done,
              total, correct, conf, evPc, evI, localCorrect, localConf,
              evalRuns>>
audioVars == <<auInput, auRate, auTarget, auOp, auResult, auAlias>>
libVars == <<cachedWindow, cachedFilters, built>>
melVars == <<melSamples, melOp, melResult>>
browserVars == <<mode, speechSupported, listening, transcript, recPc>>
voiceVars == <<speechSession, speechModelStatus, aiBusy, digit, aiProbs, err,
               vPc, melInput, browserVars>>
preVars == <<preCanvas, preCtx, preOp, preResult>>
callVars == <<fnOp, fnArgs, fnResult>>
handVars == <<hwSession, hwModelStatus, canvas, history, isDrawing,
              prediction, probs, busy, previewHost, hPc, loadPc, snapshots>>
pureVars == <<audioVars, melVars, preVars, callVars>>
notEvalVars == <<pureVars, libVars, voiceVars, handVars>>
notVoiceVars == <<pureVars, evalVars, handVars>>
notHandVars == <<pureVars, libVars, evalVars, voiceVars>>
pageVars == <<appVars, onnxVars, runTensor, evalVars, voiceVars, handVars>>
vars == <<pageVars, libVars, pureVars>>

----------------------------------------------------------------------------
(* Arrays *)

Null == "null"

Length(a) == Cardinality(DOMAIN a)

\* A JS array literal [s1, s2, ...] as a function over 0..n-1.
ArrayOf(s) == [i \in 0..(Len(s) - 1) |-> s[i + 1]]

\* new Float32Array(n), new Array(n).fill(0)
ZeroArray(n) == [i \in 0..(n - 1) |-> 0]

----------------------------------------------------------------------------
(* Bounds of the model *)

MaxSamples == 11         \* evaluation datasets hold 1..MaxSamples samples
MaxStride == 1           \* label patterns of the evaluation datasets
MaxRuns == 2             \* runEval calls counted by evalRuns
MaxSide == 3             \* sides of the small canvases given to preprocess
MaxSnapshots == 1        \* snapshotForUndo calls per mount of the page

----------------------------------------------------------------------------
(* Program constants *)

NumClasses == 10         \* digits 0..9: rows and columns of conf
ImageSide == 28          \* 28 x 28 model input
PublishEvery == 10       \* runEval updates the UI every 10 samples
SAMPLE_RATE == 16000
N_FFT == 1024
HOP_LENGTH == 512
N_MELS == 128
N_FRAMES == 32
TopK == 5                \* .slice(0, 5)
CanvasSide == 320        \* <canvas width={320} height={320}>
White == 255             \* the red channel of the 'white' fill
HistoryLimit == 20       \* snapshotForUndo keeps the last 20 snapshots
TargetInkSize == 20      \* the crop is scaled to fit 20 x 20

Tabs == {"handwriting", "voice", "eval", "spec"}

ImageDims == <<1, 1, ImageSide, ImageSide>>

\* SPEECH_INPUT and [1, 1, SPEECH_INPUT.nMels, SPEECH_INPUT.frames]
SPEECH_INPUT ==
    [sampleRate |-> SAMPLE_RATE, nFft |-> N_FFT, hopLength |-> HOP_LENGTH,
     nMels |-> N_MELS, frames |-> N_FRAMES]

SpeechDims == <<1, 1, SPEECH_INPUT.nMels, SPEECH_INPUT.frames>>

\* number | null: null is NoDigit
NoDigit == -1

----------------------------------------------------------------------------
(* The inference engine's answers: output.data, a Float32Array of 10 raw   *)
(* scores.  The engine is opaque; these are the answers the model draws    *)
(* from.  The first is the spec's scenario A; the second has a tie.        *)

LogitChoices ==
    { ArrayOf(<<5, 1, 0, 0, 0, 0, 0, 0, 0, 0>>),
      ArrayOf(<<0, 0, 0, 2, 0, 0, 0, 0, 0, 2>>) }

NoTensor == [dims |-> <<>>, len |-> -1]

\* new ort.Tensor('float32', data, dims)
Tensor(data, dims) == [dims |-> dims, len |-> Length(data)]

----------------------------------------------------------------------------
(* lib/onnx: createImageSession / createSpeechSession                      *)

\* The promise a create*Session call leaves in the module variable: the
\* cached one, or a new one whose InferenceSession.create has been started.
\* if (imageSessionPromise) return imageSessionPromise
SessionCachedMutant(promise) == promise \notin {Null, "pending"}
SessionCached(promise) == promise # Null

CreateSession(promise) == IF SessionCached(promise) THEN promise ELSE "pending"

\* configureOrtOnce runs inside the new promise's async body.
ConfigureOrtOnce(promise) == IF SessionCached(promise) THEN ortConfigured ELSE TRUE

\* The counts after a create*Session call for the given model: a new
\* promise's body runs configureOrtOnce, which sets ort.env unless
\* ortConfigured, and starts InferenceSession.create.
OrtCallsAfter(model, promise) ==
    LET called == [ortCalls EXCEPT
                     !.afterError = IF promise = "error" /\ @ < 2
                                    THEN @ + 1 ELSE @]
    IN  IF SessionCached(promise) THEN called
        ELSE [called EXCEPT
                ![model] = IF @ < 2 THEN @ + 1 ELSE 2,
                !.configure = IF ortConfigured THEN @
                              ELSE IF @ < 2 THEN @ + 1 ELSE 2]

\* InferenceSession.create settles: the async body returns 'ready' or, from
\* its catch, 'error'.
ImageSessionSettles ==
    /\ imageSessionPromise = "pending"
    /\ \E outcome \in {"ready", "error"} : imageSessionPromise' = outcome
    /\ UNCHANGED notEvalVars
    /\ UNCHANGED <<appVars, ortConfigured, ortCalls, speechSessionPromise, runTensor,
                   evalVars>>

----------------------------------------------------------------------------
(* EvalPage.tsx                                                            *)

\* useState<Dataset | null>(null): null is the dataset of no samples, which
\* the fetch never stores (it throws 'Empty dataset').
NoDataset == <<>>

ZeroConf == [y \in 0..(NumClasses - 1) |-> ZeroArray(NumClasses)]

\* A dataset sample: its label and the length of its decoded pixel buffer
\* (b64ToU8(s.pixelsB64)).  Datasets are drawn by length and label stride:
\* every label 0, or labels alternating between 0 and 5.  The samples
\* labelled 5 carry a buffer one byte short.
SampleOf(k, stride) ==
    LET label == (k * stride * (NumClasses \div 2)) % NumClasses
    IN  [label |-> label,
         npix |-> IF label # 0
                  THEN ImageSide * ImageSide - 1 ELSE ImageSide * ImageSide]

DatasetOf(n, stride) == [k \in 0..(n - 1) |-> SampleOf(k, stride)]

Datasets == { DatasetOf(n, stride) : n \in 1..MaxSamples, stride \in 0..MaxStride }

\* argmax(logits)
RECURSIVE ArgmaxFrom(_, _, _, _)
ArgmaxFrom(logits, i, best, bestIdx) ==
    IF i >= Length(logits) THEN bestIdx
    ELSE IF logits[i] > best THEN ArgmaxFrom(logits, i + 1, logits[i], i)
    ELSE ArgmaxFrom(logits, i + 1, best, bestIdx)

argmax(logits) ==
    IF Length(logits) = 0 THEN 0 ELSE ArgmaxFrom(logits, 1, logits[0], 0)

\* const x = new Float32Array(28 * 28); the loop writes x[j] for j < 784
\* (NaN where the pixel buffer is short) and never resizes x.
EvalInputMutant(sample) == ZeroArray(sample.npix)
EvalInput(sample) == ZeroArray(ImageSide * ImageSide)

\* localConf[y][pred] = (localConf[y][pred] ?? 0) + 1
AccumulateMutant(m, y, pred) == [m EXCEPT ![y][pred] = 1]
Accumulate(m, y, pred) == [m EXCEPT ![y][pred] = m[y][pred] + 1]

\* The matrix the run accumulates into: a fresh zero matrix per run.
FreshLocalConfMutant == localConf
FreshLocalConf == ZeroConf

\* The first half of the loop body, up to `await session.run`.
EvalSubmit(i) == Tensor(EvalInput(dataset[i]), ImageDims)

\* useEffect #1: createImageSession(); useEffect #2: fetch the dataset.
EvalMount ==
    /\ tab = "eval" /\ effects = "pending"
    /\ effects' = "done"
    /\ imageSessionPromise' = CreateSession(imageSessionPromise)
    /\ ortConfigured' = ConfigureOrtOnce(imageSessionPromise)
    /\ ortCalls' = OrtCallsAfter("image", imageSessionPromise)
    /\ evModelStatus' = "loading"
    /\ dataStatus' = "loading"
    /\ UNCHANGED notEvalVars
    /\ UNCHANGED <<tab, speechSessionPromise, runTensor, evSession, dataset,
                   running, done, total, correct, conf, evPc, evI,
                   localCorrect, localConf, evalRuns>>

\* The continuation of `await createImageSession()`.
EvalSessionArrives ==
    /\ tab = "eval" /\ effects = "done" /\ evModelStatus = "loading"
    /\ imageSessionPromise \in {"ready", "error"}
    /\ evModelStatus' = imageSessionPromise
    /\ evSession' = (imageSessionPromise = "ready")
    /\ UNCHANGED notEvalVars
    /\ UNCHANGED <<appVars, onnxVars, runTensor, dataset, dataStatus, running,
                   done, total, correct, conf, evPc, evI, localCorrect,
                   localConf, evalRuns>>

\* The fetch of mnist_eval_samples.json settles with a non-empty dataset.
EvalDatasetArrives ==
    /\ tab = "eval" /\ effects = "done" /\ dataStatus = "loading"
    /\ \E d \in Datasets :
         /\ dataset' = d
         /\ total' = Length(d)
    /\ dataStatus' = "ready"
    /\ UNCHANGED notEvalVars
    /\ UNCHANGED <<appVars, onnxVars, runTensor, evSession, evModelStatus,
                   running, done, correct, conf, evPc, evI, localCorrect,
                   localConf, evalRuns>>

\* The fetch fails, or the file holds no samples.
EvalDatasetFails ==
    /\ tab = "eval" /\ effects = "done" /\ dataStatus = "loading"
    /\ dataStatus' = "error"
    /\ UNCHANGED notEvalVars
    /\ UNCHANGED <<appVars, onnxVars, runTensor, evSession, evModelStatus,
                   dataset, running, done, total, correct, conf, evPc, evI,
                   localCorrect, localConf, evalRuns>>

\* The click on the button (enabled only while not running) runs runEval up
\* to its first await: the resets, the fresh locals, the first tensor.
RunEval ==
    /\ tab = "eval" /\ effects = "done"
    /\ evSession /\ dataset # NoDataset /\ ~running
    /\ evModelStatus = "ready" /\ dataStatus = "ready"
    /\ evalRuns < MaxRuns
    /\ evalRuns' = evalRuns + 1
    /\ running' = TRUE
    /\ done' = 0
    /\ correct' = 0
    /\ conf' = ZeroConf
    /\ localCorrect' = 0
    /\ localConf' = FreshLocalConf
    /\ evI' = 0
    /\ evPc' = "infer"
    /\ runTensor' = EvalSubmit(0)
    /\ UNCHANGED notEvalVars
    /\ UNCHANGED <<appVars, onnxVars, evSession, evModelStatus, dataset,
                   dataStatus, total>>

\* session.run resolves: the rest of iteration evI, then either the next
\* iteration up to its await or the end of the loop and setRunning(false).
RunEvalStep ==
    /\ evPc = "infer"
    /\ \E logits \in LogitChoices :
         LET pred == argmax(logits)
             y == dataset[evI].label
             newConf == Accumulate(localConf, y, pred)
             newCorrect == IF pred = y THEN localCorrect + 1 ELSE localCorrect
             n == Length(dataset)
             publish == (evI + 1) % PublishEvery = 0 \/ evI + 1 = n
         IN  /\ localConf' = newConf
             /\ localCorrect' = newCorrect
             /\ conf' = IF publish THEN newConf ELSE conf
             /\ correct' = IF publish THEN newCorrect ELSE correct
             /\ done' = IF publish THEN evI + 1 ELSE done
             /\ evI' = evI + 1
             /\ IF evI + 1 < n
                THEN /\ runTensor' = EvalSubmit(evI + 1)
                     /\ UNCHANGED <<evPc, running>>
                ELSE /\ runTensor' = NoTensor
                     /\ evPc' = "idle"
                     /\ running' = FALSE
    /\ UNCHANGED notEvalVars
    /\ UNCHANGED <<appVars, onnxVars, evSession, evModelStatus, dataset,
                   dataStatus, total, evalRuns>>

\* session.run rejects: runEval has no try, the call ends there and
\* setRunning(false) is never reached.
RunEvalFails ==
    /\ evPc = "infer"
    /\ evPc' = "failed"
    /\ runTensor' = NoTensor
    /\ UNCHANGED notEvalVars
    /\ UNCHANGED <<appVars, onnxVars, evSession, evModelStatus, dataset,
                   dataStatus, running, done, total, correct, conf, evI,
                   localCorrect, localConf, evalRuns>>

\* const accuracy = total ? (correct / total) * 100 : 0, as a fraction
\* <<numerator, denominator>>.
accuracy == IF total # 0 THEN <<correct * 100, total>> ELSE <<0, 1>>

EvalInit ==
    /\ evSession = FALSE
    /\ evModelStatus = "loading"
    /\ dataset = NoDataset
    /\ dataStatus = "loading"
    /\ running = FALSE
    /\ done = 0
    /\ total = 0
    /\ correct = 0
    /\ conf = ZeroConf
    /\ evPc = "idle"
    /\ evI = 0
    /\ localCorrect = 0
    /\ localConf = ZeroConf
    /\ evalRuns = 0

NextEval ==
    \/ EvalMount
    \/ ImageSessionSettles
    \/ EvalSessionArrives
    \/ EvalDatasetArrives
    \/ EvalDatasetFails
    \/ RunEval
    \/ RunEvalStep
    \/ RunEvalFails

----------------------------------------------------------------------------
(* Sample values.  A sample is an exact fraction <<n, d>> in lowest terms  *)
(* with d > 0: the code copies and zero-fills samples exactly, and its     *)
(* linear interpolation is modelled in exact arithmetic (the rounding of   *)
(* the result to float32 is not modelled).                                 *)

Abs(n) == IF n < 0 THEN -n ELSE n
Max(a, b) == IF a > b THEN a ELSE b
Min(a, b) == IF a < b THEN a ELSE b

RECURSIVE Gcd(_, _)
Gcd(a, b) == IF b = 0 THEN a ELSE Gcd(b, a % b)

Frac(n, d) ==
    LET g == Gcd(Abs(n), Abs(d))
        sign == IF d < 0 THEN -1 ELSE 1
    IN  <<(sign * n) \div g, (sign * d) \div g>>

Zero == <<0, 1>>
FracAdd(p, q) == Frac(p[1] * q[2] + q[1] * p[2], p[2] * q[2])
FracSub(p, q) == Frac(p[1] * q[2] - q[1] * p[2], p[2] * q[2])
FracMul(p, q) == Frac(p[1] * q[1], p[2] * q[2])

\* A Float32Array of samples is a sequence whose element i + 1 is the
\* sample at index i.
At(a, i) == a[i + 1]

\* The typed array, and the JS array, holding the elements of the function
\* f on 1..n.
Float32Array(f) == f \o <<>>
ArrayFrom(f) == f \o <<>>

\* new Float32Array(n): n zero samples
ZeroSamples(n) == Float32Array([k \in 1..n |-> Zero])

\* Math.round of the non-negative fraction n / d: floor(n / d + 1/2)
RoundFrac(n, d) == (2 * n + d) \div (2 * d)

\* TypedArray.prototype.subarray(begin, end), for begin, end >= 0: the view
\* of the elements begin .. end-1, both clamped to the length.
Subarray(a, begin, end) ==
    LET b == Min(begin, Len(a))
        e == Min(end, Len(a))
    IN  SubSeq(a, b + 1, e)

\* TypedArray.prototype.set(source, offset): the target after the call.
\* The callers never pass a source that overruns the target (a RangeError).
SetAt(target, source, offset) ==
    SubSeq(target, 1, offset) \o source
        \o SubSeq(target, offset + Len(source) + 1, Len(target))

----------------------------------------------------------------------------
(* lib/audio.ts                                                            *)

\* resampleLinear(input, inputRate, outputRate).  ratio is
\* outputRate / inputRate, so pos = i / ratio = (i * inputRate) / outputRate.
resampleIdxMutant(i, inputRate, outputRate) ==
    (i * inputRate + outputRate - 1) \div outputRate
resampleIdx(i, inputRate, outputRate) == (i * inputRate) \div outputRate

resampleLengthMutant(n, inputRate, outputRate) ==
    RoundFrac(n * outputRate, inputRate)
resampleOutputLength(n, inputRate, outputRate) ==
    Max(1, RoundFrac(n * outputRate, inputRate))

resampleLinear(input, inputRate, outputRate) ==
    IF inputRate = outputRate THEN input
    ELSE LET outputLength ==
                 resampleOutputLength(Len(input), inputRate, outputRate)
         IN  Float32Array(
               [k \in 1..outputLength |->
                 LET i == k - 1
                     idx == resampleIdx(i, inputRate, outputRate)
                     frac == Frac((i * inputRate) % outputRate, outputRate)
                     a == IF idx < Len(input) THEN At(input, idx) ELSE Zero
                     b == IF idx + 1 < Len(input) THEN At(input, idx + 1) ELSE a
                 IN  FracAdd(a, FracMul(FracSub(b, a), frac))])

\* takeOrPadToLength(input, targetLength)
takeOrPadMutant(input, targetLength) ==
    IF Len(input) = targetLength THEN input
    ELSE LET out == ZeroSamples(targetLength)
         IN  IF Len(input) >= targetLength
             THEN SetAt(out, Subarray(input, 0, targetLength), 0)
             ELSE SetAt(out, input, targetLength - Len(input))
takeOrPadToLength(input, targetLength) ==
    IF Len(input) = targetLength THEN input
    ELSE LET out == ZeroSamples(targetLength)
         IN  IF Len(input) >= targetLength
             THEN SetAt(out, Subarray(input, 0, targetLength), 0)
             ELSE SetAt(out, input, 0)

\* takeCenterSegment(input, targetLength)
takeCenterMutant(input, targetLength) ==
    IF Len(input) <= targetLength
    THEN takeOrPadToLength(input, targetLength)
    ELSE LET start == Len(input) - targetLength
         IN  Subarray(input, start, start + targetLength)
takeCenterSegment(input, targetLength) ==
    IF Len(input) <= targetLength
    THEN takeOrPadToLength(input, targetLength)
    ELSE LET start == (Len(input) - targetLength) \div 2
         IN  Subarray(input, start, start + targetLength)

\* What a call does to the objects it holds: the object its return
\* statement names and the objects its statements store into.  "input" is
\* the argument, "input.subarray" a view of the argument's storage, and the
\* other names are the arrays the call allocates.
Effect(returns, stores) == [returns |-> returns, stores |-> stores]

\* if (inputRate === outputRate) return input; ... output[i] = ...;
\* return output
resampleEffectMutant(inputRate, outputRate) == Effect("output", {"output"})
resampleLinearEffect(inputRate, outputRate) ==
    IF inputRate = outputRate THEN Effect("input", {})
    ELSE Effect("output", {"output"})

\* if (input.length === targetLength) return input; ... out.set(...);
\* return out
takeOrPadEffectMutant(input, targetLength) ==
    IF Len(input) = targetLength THEN Effect("input", {})
    ELSE Effect("input", {"input"})
takeOrPadEffect(input, targetLength) ==
    IF Len(input) = targetLength THEN Effect("input", {})
    ELSE Effect("out", {"out"})

\* return takeOrPadToLength(input, targetLength);
\* return input.subarray(start, start + targetLength)
takeCenterEffect(input, targetLength) ==
    IF Len(input) <= targetLength THEN takeOrPadEffect(input, targetLength)
    ELSE Effect("input.subarray", {})

\* The argument after a call of the given effect that computed `written`.
After(buffer, effect, written) ==
    IF "input" \in effect.stores THEN written ELSE buffer

----------------------------------------------------------------------------
(* Calls of the lib/audio functions on drawn arguments                     *)

MaxLen == 3              \* drawn buffers hold 0..MaxLen samples
MaxTarget == 4           \* drawn target lengths are 0..MaxTarget
MaxRate == 3             \* drawn sample rates are 1..MaxRate

SampleValues == {Frac(-1, 1), Zero, Frac(1, 1)}

Buffers(maxLen) ==
    UNION { [1..n -> SampleValues] : n \in 0..maxLen }

AudioIdle ==
    /\ auInput = <<>>
    /\ auRate = <<0, 0>>
    /\ auTarget = 0
    /\ auOp = "none"
    /\ auResult = <<>>
    /\ auAlias = "none"

CallTakeOrPad ==
    /\ auOp = "none"
    /\ \E targetLength \in 0..MaxTarget :
         LET effect == takeOrPadEffect(auInput, targetLength)
             result == takeOrPadToLength(auInput, targetLength)
         IN  /\ auTarget' = targetLength
             /\ auResult' = result
             /\ auAlias' = effect.returns
             /\ auInput' = After(auInput, effect, result)
    /\ auOp' = "takeOrPadToLength"
    /\ UNCHANGED auRate
    /\ UNCHANGED <<pageVars, libVars, melVars, preVars, callVars>>

CallTakeCenter ==
    /\ auOp = "none"
    /\ \E targetLength \in 0..MaxTarget :
         LET effect == takeCenterEffect(auInput, targetLength)
             result == takeCenterSegment(auInput, targetLength)
         IN  /\ auTarget' = targetLength
             /\ auResult' = result
             /\ auAlias' = effect.returns
             /\ auInput' = After(auInput, effect, result)
    /\ auOp' = "takeCenterSegment"
    /\ UNCHANGED auRate
    /\ UNCHANGED <<pageVars, libVars, melVars, preVars, callVars>>

CallResample ==
    /\ auOp = "none"
    /\ \E inputRate \in 1..MaxRate, outputRate \in 1..MaxRate :
         LET effect == resampleLinearEffect(inputRate, outputRate)
             result == resampleLinear(auInput, inputRate, outputRate)
         IN  /\ auRate' = <<inputRate, outputRate>>
             /\ auResult' = result
             /\ auAlias' = effect.returns
             /\ auInput' = After(auInput, effect, result)
    /\ auOp' = "resampleLinear"
    /\ UNCHANGED auTarget
    /\ UNCHANGED <<pageVars, libVars, melVars, preVars, callVars>>

NextAudio == CallTakeOrPad \/ CallTakeCenter \/ CallResample

----------------------------------------------------------------------------
(* lib/melSpectrogram.ts                                                   *)
(*                                                                         *)
(* The window, the FFT and the filterbank compute in floating point.  A    *)
(* mel power is kept as the band and frame it was computed for and whether *)
(* the frame it was computed from is silent (every windowed sample zero).  *)

\* getWindow() / getMelFilters(): the cache after the call, the window and
\* the built filterbank being opaque values
\* cachedWindow ??= ...; if (cachedFilters) return cachedFilters
WindowCachedMutant == FALSE
WindowCached == cachedWindow # Null
FiltersCached == cachedFilters # Null

getWindow == IF WindowCached THEN cachedWindow ELSE "hannWindow(N_FFT)"
getMelFilters == IF FiltersCached THEN cachedFilters ELSE "filters"

\* The counts after a call of melSpectrogram128x32From16k, which calls
\* getWindow and getMelFilters once each.
BuiltAfter ==
    [window |-> built.window + (IF WindowCached THEN 0 ELSE 1),
     filters |-> built.filters + (IF FiltersCached THEN 0 ELSE 1),
     calls |-> Min(built.calls + 1, 2)]

\* w[i] = 0.5 - 0.5 * cos(2 pi i / (n - 1)) is zero at both ends only
HannIsZero(i) == i = 0 \/ i = N_FFT - 1

\* padded = new Float32Array(samples16k.length + pad * 2);
\* padded.set(samples16k, pad)
PaddedSignal(samples16k) ==
    LET pad == N_FFT \div 2
    IN  SetAt(ZeroSamples(Len(samples16k) + pad * 2), samples16k, pad)

\* padded[start + i] ?? 0
PaddedAtMutant(padded, j) == IF j < Len(padded) THEN At(padded, j) ELSE <<1, 1>>
PaddedAt(padded, j) == IF j < Len(padded) THEN At(padded, j) ELSE Zero

\* const start = t * HOP_LENGTH
FrameStartMutant(t) == t * N_FFT
FrameStart(t) == t * HOP_LENGTH

\* frame[i] = (padded[start + i] ?? 0) * window[i] is zero for every i
FrameSilent(padded, t) ==
    \A i \in 0..(N_FFT - 1) :
        PaddedAt(padded, FrameStart(t) + i) = Zero \/ HannIsZero(i)

\* The reads padded[start + i] of the loop that fills frame t: the first
\* and the last index read, the indices read past the end of padded, and
\* the indices at which a non-zero sample was read.
FrameReads(padded, t) ==
    LET indices == { FrameStart(t) + i : i \in 0..(N_FFT - 1) }
    IN  [first   |-> FrameStart(t) + 0,
         last    |-> FrameStart(t) + (N_FFT - 1),
         count   |-> Cardinality(indices),
         outside |-> { j \in indices : j >= Len(padded) },
         nonZero |-> { j \in indices : PaddedAt(padded, j) # Zero }]

\* for (let t = 0; t < N_FRAMES; t++): the reads of every frame
FramesRead(samples16k) ==
    LET padded == PaddedSignal(samples16k)
    IN  ArrayFrom([k \in 1..N_FRAMES |-> FrameReads(padded, k - 1)])

\* The value a Float32Array(N_MELS * N_FRAMES) holds before it is written
\* (zero), and the sum written for band m of frame t.
NotWritten == [band |-> -1, frame |-> -1, silent |-> TRUE]
MelPower(m, t, silent) == [band |-> m, frame |-> t, silent |-> silent]

\* out[m * N_FRAMES + t] = sum
MelIndexMutant(m, t) == t * N_MELS + m
MelIndex(m, t) == m * N_FRAMES + t

\* The writes out[m * N_FRAMES + t] = sum that the two loops make at the
\* positions lo .. hi of their order (band m of frame t is at position
\* t * N_MELS + m), as the map from each index written to the value
\* written there last.
RECURSIVE MelWrites(_, _, _)
MelWrites(silent, lo, hi) ==
    IF lo = hi
    THEN LET t == lo \div N_MELS
             m == lo % N_MELS
         IN  MelIndex(m, t) :> MelPower(m, t, At(silent, t))
    ELSE LET mid == (lo + hi) \div 2
         IN  MelWrites(silent, mid + 1, hi) @@ MelWrites(silent, lo, mid)

\* out after the writes (a write past the end of a typed array is dropped)
ApplyWrites(out, writes, written) ==
    Float32Array(
      [k \in 1..Len(out) |->
        IF k - 1 \in written THEN writes[k - 1] ELSE At(out, k - 1)])

\* const out = new Float32Array(N_MELS * N_FRAMES)
MelOut(samples16k) == Float32Array([k \in 1..(N_MELS * N_FRAMES) |-> NotWritten])

\* melSpectrogram128x32From16k(samples16k)
FramesSilent(padded) ==
    ArrayFrom([k \in 1..N_FRAMES |-> FrameSilent(padded, k - 1)])

\* getMelFilters, lines 94-111: the filter f built for a band from
\* left = bin[m - 1], center = bin[m] and right = bin[m + 1].  The bins are
\* floors of (N_FFT + 1) * hz / SAMPLE_RATE for hz in [0, SAMPLE_RATE / 2],
\* so every k the loops visit passes `k >= 0 && k < nFftBins`.
nFftBins == N_FFT \div 2 + 1

MelFilterMutant(left, center, right) ==
    IF right <= left THEN ZeroSamples(nFftBins)
    ELSE Float32Array(
           [i \in 1..nFftBins |->
             LET k == i - 1
             IN  IF k >= center /\ k < right
                 THEN Frac(center - k, Max(1, right - center))
                 ELSE IF k >= left /\ k < center
                 THEN Frac(k - left, Max(1, center - left))
                 ELSE Zero])
MelFilter(left, center, right) ==
    IF right <= left THEN ZeroSamples(nFftBins)
    ELSE Float32Array(
           [i \in 1..nFftBins |->
             LET k == i - 1
             IN  IF k >= center /\ k < right
                 THEN Frac(right - k, Max(1, right - center))
                 ELSE IF k >= left /\ k < center
                 THEN Frac(k - left, Max(1, center - left))
                 ELSE Zero])

\* The arrays the call allocates and stores into: padded.set, frame[i] =,
\* re.set, im.fill, fftInPlace(re, im), power[k] =, out[...] =; return out
melSpectrogramEffect ==
    Effect("out", {"padded", "frame", "re", "im", "power", "out"})

melSpectrogram128x32From16k(samples16k) ==
    LET writes == MelWrites(FramesSilent(PaddedSignal(samples16k)), 0,
                            N_FRAMES * N_MELS - 1)
    IN  ApplyWrites(MelOut(samples16k), writes, DOMAIN writes)

----------------------------------------------------------------------------
(* Calls of melSpectrogram128x32From16k on drawn buffers                   *)

MaxMelLen == 20          \* drawn buffers: 0..MaxMelLen samples, and more

\* The drawn signals: silence, a repeating -1, 0, 1 pattern, and a single
\* non-zero sample at the end of the buffer.
Signal(kind, n) ==
    Float32Array(
      [k \in 1..n |->
        CASE kind = "silence" -> Zero
          [] kind = "tone" -> <<((k - 1) % 3) - 1, 1>>
          [] kind = "click" -> IF k = n THEN <<1, 1>> ELSE Zero])

SignalKinds == {"silence", "tone", "click"}

MelLengths ==
    (0..MaxMelLen) \cup
    {SAMPLE_RATE - 1, SAMPLE_RATE, SAMPLE_RATE + 1, SAMPLE_RATE + N_FFT}

MelIdle ==
    /\ melSamples = <<>>
    /\ melOp = "none"
    /\ melResult = <<>>

CallMelSpectrogram ==
    /\ melOp = "none"
    /\ melOp' = "melSpectrogram128x32From16k"
    /\ melResult' = melSpectrogram128x32From16k(melSamples)
    /\ melSamples' = After(melSamples, melSpectrogramEffect, melResult')
    /\ cachedWindow' = getWindow
    /\ cachedFilters' = getMelFilters
    /\ built' = BuiltAfter
    /\ UNCHANGED <<pageVars, audioVars, preVars, callVars>>

NextMel == CallMelSpectrogram

----------------------------------------------------------------------------
(* Scoring: softmax and the top-5 ranking (HandwritingPage.tsx and         *)
(* VoicePage.tsx hold the same code)                                       *)

RECURSIVE MaxFrom(_, _)
MaxFrom(a, i) ==
    IF i + 1 >= Length(a) THEN a[i] ELSE Max(a[i], MaxFrom(a, i + 1))

\* softmax(logits): exp(v - max) / sum.  A probability is kept as its
\* exponent v - max, which orders the probabilities as exp does.
softmaxMutant(logits) == [i \in DOMAIN logits |-> logits[i]]
softmax(logits) ==
    LET max == MaxFrom(logits, 0)
    IN  [i \in DOMAIN logits |-> logits[i] - max]

\* A sum of exponentials, kept as the bag of their exponents.
ExpSum(e) ==
    [v \in { e[i] : i \in DOMAIN e } |->
        Cardinality({ i \in DOMAIN e : e[i] = v })]

\* sum = exps.reduce((a, b) => a + b, 0), the divisor of every entry
softmaxSum(logits) ==
    LET max == MaxFrom(logits, 0)
    IN  ExpSum([i \in DOMAIN logits |-> logits[i] - max])

\* p.map((v, digit) => ({ digit, p: v })).sort((a, b) => b.p - a.p): the
\* pair at position k of the sorted array.  Array.prototype.sort is stable:
\* pairs of equal p keep their index order.
BeforeMutant(p, i, j) == p[i] > p[j] \/ (p[i] = p[j] /\ i > j)
Before(p, i, j) == p[i] > p[j] \/ (p[i] = p[j] /\ i < j)

SortedDesc(p) ==
    [k \in DOMAIN p |->
        LET i == CHOOSE i \in DOMAIN p :
                     Cardinality({ j \in DOMAIN p : Before(p, j, i) }) = k
        IN  [digit |-> i, p |-> p[i]]]

\* Array.prototype.slice(begin, end), for 0 <= begin <= end
Slice(a, begin, end) ==
    [i \in 0..(Min(end, Length(a)) - begin - 1) |-> a[begin + i]]

\* .slice(0, 5)
Ranked(p) == Slice(SortedDesc(p), 0, TopK)

\* ranked[0]?.digit ?? null
TopDigit(ranked) == IF 0 \in DOMAIN ranked THEN ranked[0].digit ELSE NoDigit

----------------------------------------------------------------------------
(* VoicePage.tsx                                                           *)

\* What recordMono resolves with: whole 4096-sample chunks at the audio
\* context's rate.  What decodeAudioFileToMono resolves with: any length
\* at the file's rate.  A capture is <<length, sampleRate>>.
ChunkLength == 4096
RecordedCaptures ==
    { <<0, SAMPLE_RATE>>, <<ChunkLength, 8000>>, <<3 * ChunkLength, 8000>>,
      <<6 * ChunkLength, 22050>> }
DecodedCaptures ==
    { <<0, 8000>>, <<SAMPLE_RATE - 1, SAMPLE_RATE>>, <<SAMPLE_RATE, SAMPLE_RATE>>,
      <<20000, SAMPLE_RATE>>, <<20000, 22050>> }

\* runAiOnce, lines 114-116
Fixed16kOnce(samples, sampleRate) ==
    LET oneSec == takeOrPadToLength(samples, sampleRate)
        resampled == resampleLinear(oneSec, sampleRate, SPEECH_INPUT.sampleRate)
    IN  takeOrPadToLength(resampled, SPEECH_INPUT.sampleRate)

\* runAiFromFile, lines 144-146
Fixed16kFromFileMutant(samples, sampleRate) ==
    resampleLinear(samples, sampleRate, SPEECH_INPUT.sampleRate)
Fixed16kFromFile(samples, sampleRate) ==
    LET resampled == resampleLinear(samples, sampleRate, SPEECH_INPUT.sampleRate)
        centered == takeCenterSegment(resampled, SPEECH_INPUT.sampleRate)
    IN  takeOrPadToLength(centered, SPEECH_INPUT.sampleRate)

\* The buffer a call passed to melSpectrogram128x32From16k, kept by its
\* length and the length of the capture it was cut from; NoBuffer while no
\* call has passed one.
NoBuffer == [length |-> -1, from |-> -1]
BufferOf(samples, fixed16k) == [length |-> Len(fixed16k), from |-> Len(samples)]

\* The transcripts the browser's recognizer reports, and extractDigit on
\* them.
Transcripts == {"7", "seven", "hello"}
extractDigit(text) ==
    CASE text = "7" -> 7
      [] text = "seven" -> 7
      [] OTHER -> NoDigit

VoiceInit ==
    /\ speechSession = FALSE
    /\ speechModelStatus = "loading"
    /\ aiBusy = FALSE
    /\ digit = NoDigit
    /\ aiProbs = <<>>
    /\ err = ""
    /\ vPc = "idle"
    /\ melInput = NoBuffer
    /\ listening = FALSE
    /\ transcript = ""
    /\ recPc = "idle"

VoiceMounted == tab = "voice" /\ effects = "done"

SpeechSessionSettles ==
    /\ speechSessionPromise = "pending"
    /\ \E outcome \in {"ready", "error"} : speechSessionPromise' = outcome
    /\ UNCHANGED <<appVars, ortConfigured, ortCalls, imageSessionPromise, runTensor,
                   libVars, pureVars, evalVars, voiceVars, handVars>>

\* useEffect: createSpeechSession(); useEffect: the SpeechRecognition
\* object is built when the browser has one.
VoiceMount ==
    /\ tab = "voice" /\ effects = "pending"
    /\ effects' = "done"
    /\ speechSessionPromise' = CreateSession(speechSessionPromise)
    /\ ortConfigured' = ConfigureOrtOnce(speechSessionPromise)
    /\ ortCalls' = OrtCallsAfter("speech", speechSessionPromise)
    /\ speechModelStatus' = "loading"
    /\ UNCHANGED notVoiceVars
    /\ UNCHANGED <<tab, imageSessionPromise, runTensor, libVars, speechSession,
                   aiBusy, digit, aiProbs, err, vPc, melInput, browserVars>>

VoiceSessionArrives ==
    /\ VoiceMounted /\ speechModelStatus = "loading"
    /\ speechSessionPromise \in {"ready", "error"}
    /\ speechModelStatus' = speechSessionPromise
    /\ speechSession' = (speechSessionPromise = "ready")
    /\ UNCHANGED notVoiceVars
    /\ UNCHANGED <<appVars, onnxVars, runTensor, libVars, aiBusy, digit,
                   aiProbs, err, vPc, melInput, browserVars>>

\* onClick={() => setMode(m)}; the effect stores the mode.
SetMode ==
    /\ VoiceMounted
    /\ \E m \in {"ai", "browser"} : m # mode /\ mode' = m
    /\ UNCHANGED notVoiceVars
    /\ UNCHANGED <<appVars, onnxVars, runTensor, libVars, speechSession,
                   speechModelStatus, aiBusy, digit, aiProbs, err, vPc,
                   melInput, speechSupported, listening, transcript, recPc>>

\* The start of runAiOnce (pc = "record") and of runAiFromFile
\* (pc = "decode"), up to the await of the capture.  Both buttons show in
\* the AI mode and are disabled while aiBusy or while the model is not
\* ready.
VoiceStart(pc) ==
    /\ VoiceMounted /\ mode = "ai"
    /\ speechSession /\ speechModelStatus = "ready" /\ ~aiBusy
    /\ err' = ""
    /\ digit' = NoDigit
    /\ aiProbs' = <<>>
    /\ aiBusy' = TRUE
    /\ vPc' = pc
    /\ UNCHANGED notVoiceVars
    /\ UNCHANGED <<appVars, onnxVars, runTensor, libVars, speechSession,
                   speechModelStatus, melInput, browserVars>>

RunAiOnce == VoiceStart("record")

RunAiFromFile == VoiceStart("decode")

\* Lines 117-118 and 147-148: the buffer passed to
\* melSpectrogram128x32From16k and the tensor built from its result.
Submission(samples, fixed16k) ==
    [input |-> BufferOf(samples, fixed16k),
     tensor |-> Tensor(melSpectrogram128x32From16k(fixed16k), SpeechDims)]

\* What runAiOnce and runAiFromFile compute from each capture (the
\* computation reads nothing but the capture).
RecordedSubmissions ==
    [c \in RecordedCaptures |->
        LET samples == Signal("tone", c[1])
        IN  Submission(samples, Fixed16kOnce(samples, c[2]))]
DecodedSubmissions ==
    [c \in DecodedCaptures |->
        LET samples == Signal("tone", c[1])
        IN  Submission(samples, Fixed16kFromFile(samples, c[2]))]

\* From the captured audio to `await speechSession.run`.
VoiceSubmit(submission) ==
    /\ melInput' = submission.input
    /\ cachedWindow' = getWindow
    /\ cachedFilters' = getMelFilters
    /\ built' = BuiltAfter
    /\ runTensor' = submission.tensor
    /\ vPc' = "infer"
    /\ UNCHANGED notVoiceVars
    /\ UNCHANGED <<appVars, onnxVars, speechSession, speechModelStatus,
                   aiBusy, digit, aiProbs, err, browserVars>>

\* recordMono(1050) resolves.
RecordArrives ==
    /\ vPc = "record"
    /\ \E c \in RecordedCaptures : VoiceSubmit(RecordedSubmissions[c])

\* decodeAudioFileToMono(file) resolves.
DecodeArrives ==
    /\ vPc = "decode"
    /\ \E c \in DecodedCaptures : VoiceSubmit(DecodedSubmissions[c])

\* speechSession.run resolves: softmax, ranking, then finally.
VoiceResult ==
    /\ vPc = "infer"
    /\ \E logits \in LogitChoices :
         LET ranked == Ranked(softmax(logits))
         IN  /\ aiProbs' = ranked
             /\ digit' = TopDigit(ranked)
    /\ aiBusy' = FALSE
    /\ vPc' = "idle"
    /\ runTensor' = NoTensor
    /\ melInput' = NoBuffer
    /\ UNCHANGED notVoiceVars
    /\ UNCHANGED <<appVars, onnxVars, libVars, speechSession,
                   speechModelStatus, err, browserVars>>

\* recordMono, decodeAudioFileToMono or speechSession.run rejects: catch
\* sets err, finally resets aiBusy.
VoiceFails ==
    /\ vPc \in {"record", "decode", "infer"}
    /\ err' = "error"
    /\ aiBusy' = FALSE
    /\ vPc' = "idle"
    /\ runTensor' = NoTensor
    /\ melInput' = NoBuffer
    /\ UNCHANGED notVoiceVars
    /\ UNCHANGED <<appVars, onnxVars, libVars, speechSession,
                   speechModelStatus, digit, aiProbs, browserVars>>

\* startBrowser: recognitionRef.current?.start().  The button shows in the
\* browser mode and is disabled while listening or unsupported; start()
\* throws while the recognizer has not ended, and the catch reports it.
StartBrowser ==
    /\ VoiceMounted /\ mode = "browser" /\ speechSupported /\ ~listening
    /\ IF recPc = "idle"
       THEN recPc' = "starting" /\ UNCHANGED <<err, listening>>
       ELSE err' = "error" /\ listening' = FALSE /\ UNCHANGED recPc
    /\ UNCHANGED notVoiceVars
    /\ UNCHANGED <<appVars, onnxVars, runTensor, libVars, speechSession,
                   speechModelStatus, aiBusy, digit, aiProbs, vPc, melInput,
                   mode, speechSupported, transcript>>

\* stopBrowser: recognitionRef.current?.stop()
StopBrowser ==
    /\ VoiceMounted /\ mode = "browser" /\ speechSupported /\ listening
    /\ recPc' = IF recPc = "active" THEN "ending" ELSE recPc
    /\ UNCHANGED notVoiceVars
    /\ UNCHANGED <<appVars, onnxVars, runTensor, libVars, speechSession,
                   speechModelStatus, aiBusy, digit, aiProbs, err, vPc,
                   melInput, mode, speechSupported, listening, transcript>>

\* rec.onstart
RecOnStart ==
    /\ recPc = "starting"
    /\ recPc' = "active"
    /\ err' = ""
    /\ listening' = TRUE
    /\ transcript' = ""
    /\ digit' = NoDigit
    /\ UNCHANGED notVoiceVars
    /\ UNCHANGED <<appVars, onnxVars, runTensor, libVars, speechSession,
                   speechModelStatus, aiBusy, aiProbs, vPc, melInput, mode,
                   speechSupported>>

\* rec.onresult
RecOnResult ==
    /\ recPc = "active"
    /\ \E text \in Transcripts :
         /\ transcript' = text
         /\ digit' = extractDigit(text)
    /\ UNCHANGED notVoiceVars
    /\ UNCHANGED <<appVars, onnxVars, runTensor, libVars, speechSession,
                   speechModelStatus, aiBusy, aiProbs, err, vPc, melInput,
                   mode, speechSupported, listening, recPc>>

\* rec.onerror, which the recognizer follows with onend
RecOnError ==
    /\ recPc \in {"starting", "active"}
    /\ recPc' = "ending"
    /\ err' = "error"
    /\ listening' = FALSE
    /\ UNCHANGED notVoiceVars
    /\ UNCHANGED <<appVars, onnxVars, runTensor, libVars, speechSession,
                   speechModelStatus, aiBusy, digit, aiProbs, vPc, melInput,
                   mode, speechSupported, transcript>>

\* rec.onend
RecOnEnd ==
    /\ recPc \in {"active", "ending"}
    /\ recPc' = "idle"
    /\ listening' = FALSE
    /\ UNCHANGED notVoiceVars
    /\ UNCHANGED <<appVars, onnxVars, runTensor, libVars, speechSession,
                   speechModelStatus, aiBusy, digit, aiProbs, err, vPc,
                   melInput, mode, speechSupported, transcript>>

NextVoice ==
    \/ VoiceMount
    \/ SpeechSessionSettles
    \/ VoiceSessionArrives
    \/ SetMode
    \/ RunAiOnce
    \/ RunAiFromFile
    \/ RecordArrives
    \/ DecodeArrives
    \/ VoiceResult
    \/ VoiceFails
    \/ StartBrowser
    \/ StopBrowser
    \/ RecOnStart
    \/ RecOnResult
    \/ RecOnError
    \/ RecOnEnd

----------------------------------------------------------------------------
(* lib/preprocessMnist.ts                                                  *)

\* A canvas is its size and the red channel of the pixels that differ from
\* the 'white' fill: painted maps a pixel <<x, y>> to its red byte.  The
\* code reads no other channel.
Canvas(width, height, painted) ==
    [width |-> width, height |-> height, painted |-> painted]

NoPaint == [q \in {} |-> White]

RedAt(c, q) == IF q \in DOMAIN c.painted THEN c.painted[q] ELSE White

Paint(c, q, red) ==
    [c EXCEPT !.painted =
        [p \in (DOMAIN c.painted) \cup {q} |-> IF p = q THEN red ELSE c.painted[p]]]

MNIST_MEAN == <<1307, 10000>>
MNIST_STD == <<3081, 10000>>
threshold == <<12, 100>>

FracGreater(p, q) == p[1] * q[2] > q[1] * p[2]

FracDiv(p, q) ==
    LET g1 == Gcd(Abs(p[1]), Abs(q[1]))
        g2 == Gcd(p[2], q[2])
    IN  IF p[1] = 0 THEN Zero
        ELSE Frac((p[1] \div g1) * (q[2] \div g2), (p[2] \div g2) * (q[1] \div g1))

\* const r = data[i] / 255; const ink = 1 - r;
InkOf(red) == FracSub(<<1, 1>>, Frac(red, 255))

\* if (ink > threshold)
IsInkMutant(red) == red < White
IsInk(red) == FracGreater(InkOf(red), threshold)

clampMutant(v, min, max) == v
clamp(v, min, max) == Max(min, Min(max, v))

\* The bounding-box scan.  The loop visits every pixel of the canvas; an
\* unpainted pixel is white, its ink is 0 and it never passes the test, so
\* the pixels that update the box are the painted ones that are ink.
InkPixels(c) ==
    { q \in DOMAIN c.painted :
        /\ q[1] \in 0..(c.width - 1) /\ q[2] \in 0..(c.height - 1)
        /\ IsInk(c.painted[q]) }

SetMin(S) == CHOOSE v \in S : \A w \in S : v <= w
SetMax(S) == CHOOSE v \in S : \A w \in S : v >= w

BoundingBoxMutant(c) ==
    LET ink == InkPixels(c)
    IN  [minX |-> 0,
         minY |-> 0,
         maxX |-> SetMax({ q[1] : q \in ink } \cup {-1}),
         maxY |-> SetMax({ q[2] : q \in ink } \cup {-1})]
BoundingBox(c) ==
    LET ink == InkPixels(c)
    IN  [minX |-> SetMin({ q[1] : q \in ink } \cup {c.width}),
         minY |-> SetMin({ q[2] : q \in ink } \cup {c.height}),
         maxX |-> SetMax({ q[1] : q \in ink } \cup {-1}),
         maxY |-> SetMax({ q[2] : q \in ink } \cup {-1})]

NoBox == [minX |-> -1, minY |-> -1, maxX |-> -1, maxY |-> -1]

\* Lines 58-67 and 77-80 and 94-95: the crop rectangle, the scaled size and
\* the offsets.  Math.round is taken of the exact products boxSize / 5 and
\* cropW * 20 / max(cropW, cropH); the rounding of 0.2 and of the quotient
\* to a double is not modelled.
LayoutOfMutant(c, box) ==
    LET boxW == box.maxX - box.minX + 1
        boxH == box.maxY - box.minY + 1
        boxSize == Max(boxW, boxH)
        margin == RoundFrac(boxSize, 5)
        cropX == clamp(box.minX - margin, 0, c.width - 1)
        cropY == clamp(box.minY - margin, 0, c.height - 1)
        cropMaxX == clamp(box.maxX + margin, 0, c.width - 1)
        cropMaxY == clamp(box.maxY + margin, 0, c.height - 1)
        cropW == cropMaxX - cropX + 1
        cropH == cropMaxY - cropY + 1
        scaledW == Max(1, RoundFrac(cropW * TargetInkSize, Min(cropW, cropH)))
        scaledH == Max(1, RoundFrac(cropH * TargetInkSize, Min(cropW, cropH)))
    IN  [margin |-> margin, cropX |-> cropX, cropY |-> cropY,
         cropW |-> cropW, cropH |-> cropH,
         scaledW |-> scaledW, scaledH |-> scaledH,
         offsetX |-> (ImageSide - scaledW) \div 2,
         offsetY |-> (ImageSide - scaledH) \div 2]
LayoutOf(c, box) ==
    LET boxW == box.maxX - box.minX + 1
        boxH == box.maxY - box.minY + 1
        boxSize == Max(boxW, boxH)
        margin == RoundFrac(boxSize, 5)
        cropX == clamp(box.minX - margin, 0, c.width - 1)
        cropY == clamp(box.minY - margin, 0, c.height - 1)
        cropMaxX == clamp(box.maxX + margin, 0, c.width - 1)
        cropMaxY == clamp(box.maxY + margin, 0, c.height - 1)
        cropW == cropMaxX - cropX + 1
        cropH == cropMaxY - cropY + 1
        scaledW == Max(1, RoundFrac(cropW * TargetInkSize, Max(cropW, cropH)))
        scaledH == Max(1, RoundFrac(cropH * TargetInkSize, Max(cropW, cropH)))
    IN  [margin |-> margin, cropX |-> cropX, cropY |-> cropY,
         cropW |-> cropW, cropH |-> cropH,
         scaledW |-> scaledW, scaledH |-> scaledH,
         offsetX |-> (ImageSide - scaledW) \div 2,
         offsetY |-> (ImageSide - scaledH) \div 2]

NoLayout ==
    [margin |-> -1, cropX |-> -1, cropY |-> -1, cropW |-> -1, cropH |-> -1,
     scaledW |-> -1, scaledH |-> -1, offsetX |-> -1, offsetY |-> -1]

\* A pixel of the scaled crop: its intensity is what the browser's image
\* smoothing makes of the source pixels, which the model does not compute.
Interpolated == <<0, 0>>

\* tensorData[i / 4] = (ink - MNIST_MEAN) / MNIST_STD
Normalize(red) == FracDiv(FracSub(InkOf(red), MNIST_MEAN), MNIST_STD)

\* The tensor value of a pixel of the white fill
Background == Normalize(White)

\* Lines 92-104: the white 28 x 28 preview with the scaled crop drawn at
\* the offsets, read back row by row.
ComposeTensor(layout) ==
    Float32Array(
      [k \in 1..(ImageSide * ImageSide) |->
        LET x == (k - 1) % ImageSide
            y == (k - 1) \div ImageSide
        IN  IF /\ x \in layout.offsetX..(layout.offsetX + layout.scaledW - 1)
               /\ y \in layout.offsetY..(layout.offsetY + layout.scaledH - 1)
            THEN Interpolated
            ELSE Background])

\* The getContext('2d') call that returns null, if any does.
CtxFailures == {"none", "source", "preview", "crop", "scaled"}

\* throw new Error(message)
Thrown(message, box) ==
    [threw |-> TRUE, message |-> message, tensorData |-> <<>>,
     previewCanvas |-> "none", hasInk |-> FALSE, box |-> box,
     layout |-> NoLayout]

\* preprocessMnistFromCanvas(sourceCanvas).  The result carries the
\* PreprocessResult fields (previewCanvas by what it shows) and the
\* function's locals.
preprocessMnistFromCanvas(sourceCanvas, ctxFail) ==
    IF ctxFail = "source" THEN Thrown("Could not read canvas", NoBox)
    ELSE
    LET box == BoundingBox(sourceCanvas)
    IN  IF ctxFail = "preview"
        THEN Thrown("Could not create preview canvas", box)
        ELSE IF box.maxX < 0 \/ box.maxY < 0
        THEN [threw |-> FALSE, message |-> "",
              tensorData |-> ZeroSamples(ImageSide * ImageSide),
              previewCanvas |-> "black", hasInk |-> FALSE, box |-> box,
              layout |-> NoLayout]
        ELSE IF ctxFail = "crop"
        THEN Thrown("Could not create crop canvas", box)
        ELSE IF ctxFail = "scaled"
        THEN Thrown("Could not create scaled canvas", box)
        ELSE LET layout == LayoutOf(sourceCanvas, box)
             IN  [threw |-> FALSE, message |-> "",
                  tensorData |-> ComposeTensor(layout),
                  previewCanvas |-> "digit", hasInk |-> TRUE, box |-> box,
                  layout |-> layout]

\* One call of preprocessMnistFromCanvas on a drawn canvas: any size from
\* 1 x 1 to MaxSide x MaxSide or the page's 320 x 320, with up to three
\* painted pixels (two corners and an inner one).
Reds == {0, 224, 225, White}

MarkedPixels(w, h) == {<<0, 0>>, <<w - 1, h - 1>>, <<w \div 2, h \div 3>>}

CanvasesOf(w, h) ==
    { Canvas(w, h, [q \in { p \in MarkedPixels(w, h) : f[p] # White } |-> f[q]]) :
        f \in [MarkedPixels(w, h) -> Reds] }

CanvasSizes ==
    ((1..MaxSide) \X (1..MaxSide)) \cup {<<CanvasSide, CanvasSide>>}

PreIdle ==
    /\ preCanvas = Canvas(0, 0, NoPaint)
    /\ preCtx = "none"
    /\ preOp = "none"
    /\ preResult = Thrown("", NoBox)

CallPreprocess ==
    /\ preOp = "none"
    /\ preOp' = "preprocessMnistFromCanvas"
    /\ preResult' = preprocessMnistFromCanvas(preCanvas, preCtx)
    /\ UNCHANGED <<pageVars, libVars, audioVars, melVars, callVars, preCanvas,
                   preCtx>>

NextPre == CallPreprocess

----------------------------------------------------------------------------
(* HandwritingPage.tsx                                                     *)

BlankCanvas == Canvas(CanvasSide, CanvasSide, NoPaint)

\* What a pointer stroke leaves on a pixel: black, or the faint edge of an
\* anti-aliased line (red 225, below the ink threshold).  What an uploaded
\* image leaves on the canvas: nothing but white, or a dark pixel.
DrawPoints == {<<CanvasSide - 1, CanvasSide - 1>>}
StrokeReds == {0, 225}
LoadedImages == {BlankCanvas, Paint(BlankCanvas, <<40, 60>>, 0)}

HandInit ==
    /\ hwSession = FALSE
    /\ hwModelStatus = "loading"
    /\ canvas = BlankCanvas
    /\ history = <<>>
    /\ isDrawing = FALSE
    /\ prediction = NoDigit
    /\ probs = <<>>
    /\ busy = FALSE
    /\ previewHost = "empty"
    /\ hPc = "idle"
    /\ loadPc = "idle"
    /\ snapshots = 0

HandMounted == tab = "handwriting" /\ effects = "done"

\* The three useEffect bodies: createImageSession(), the white fill of the
\* canvas, host.replaceChildren().
HandMount ==
    /\ tab = "handwriting" /\ effects = "pending"
    /\ effects' = "done"
    /\ imageSessionPromise' = CreateSession(imageSessionPromise)
    /\ ortConfigured' = ConfigureOrtOnce(imageSessionPromise)
    /\ ortCalls' = OrtCallsAfter("image", imageSessionPromise)
    /\ hwModelStatus' = "loading"
    /\ canvas' = BlankCanvas
    /\ previewHost' = "empty"
    /\ UNCHANGED notHandVars
    /\ UNCHANGED <<tab, speechSessionPromise, runTensor, hwSession, history,
                   isDrawing, prediction, probs, busy, hPc, loadPc, snapshots>>

HandSessionArrives ==
    /\ HandMounted /\ hwModelStatus = "loading"
    /\ imageSessionPromise \in {"ready", "error"}
    /\ hwModelStatus' = imageSessionPromise
    /\ hwSession' = (imageSessionPromise = "ready")
    /\ UNCHANGED notHandVars
    /\ UNCHANGED <<appVars, onnxVars, runTensor, canvas, history, isDrawing,
                   prediction, probs, busy, previewHost, hPc, loadPc, snapshots>>

\* historyRef.current.push(...); if (length > 20) shift()
snapshotForUndo(h, c) ==
    LET pushed == Append(h, c)
    IN  IF Len(pushed) > HistoryLimit THEN Tail(pushed) ELSE pushed

OnPointerDown ==
    /\ HandMounted /\ snapshots < MaxSnapshots
    /\ isDrawing' = TRUE
    /\ history' = snapshotForUndo(history, canvas)
    /\ snapshots' = snapshots + 1
    /\ UNCHANGED notHandVars
    /\ UNCHANGED <<appVars, onnxVars, runTensor, hwSession, hwModelStatus,
                   canvas, prediction, probs, busy, previewHost, hPc, loadPc>>

\* ctx.stroke() darkens the pixels under the line.
OnPointerMove ==
    /\ HandMounted /\ isDrawing
    /\ \E q \in DrawPoints, red \in StrokeReds :
         canvas' = Paint(canvas, q, Min(red, RedAt(canvas, q)))
    /\ UNCHANGED notHandVars
    /\ UNCHANGED <<appVars, onnxVars, runTensor, hwSession, hwModelStatus,
                   history, isDrawing, prediction, probs, busy, previewHost,
                   hPc, loadPc, snapshots>>

StopDrawing ==
    /\ HandMounted /\ isDrawing
    /\ isDrawing' = FALSE
    /\ UNCHANGED notHandVars
    /\ UNCHANGED <<appVars, onnxVars, runTensor, hwSession, hwModelStatus,
                   canvas, history, prediction, probs, busy, previewHost,
                   hPc, loadPc, snapshots>>

\* The button is disabled while busy.
ClearCanvas ==
    /\ HandMounted /\ ~busy
    /\ canvas' = BlankCanvas
    /\ history' = <<>>
    /\ prediction' = NoDigit
    /\ probs' = <<>>
    /\ previewHost' = "empty"
    /\ UNCHANGED notHandVars
    /\ UNCHANGED <<appVars, onnxVars, runTensor, hwSession, hwModelStatus,
                   isDrawing, busy, hPc, loadPc, snapshots>>

\* const prev = historyRef.current.pop(); if (!prev) return;
Undo ==
    /\ HandMounted /\ ~busy
    /\ history # <<>>
    /\ canvas' = history[Len(history)]
    /\ history' = SubSeq(history, 1, Len(history) - 1)
    /\ UNCHANGED notHandVars
    /\ UNCHANGED <<appVars, onnxVars, runTensor, hwSession, hwModelStatus,
                   isDrawing, prediction, probs, busy, previewHost, hPc,
                   loadPc, snapshots>>

\* loadImageToCanvas up to the await of the image (one upload at a time).
LoadImageToCanvas ==
    /\ HandMounted /\ ~busy /\ loadPc = "idle" /\ snapshots < MaxSnapshots
    /\ history' = snapshotForUndo(history, canvas)
    /\ snapshots' = snapshots + 1
    /\ loadPc' = "loading"
    /\ UNCHANGED notHandVars
    /\ UNCHANGED <<appVars, onnxVars, runTensor, hwSession, hwModelStatus,
                   canvas, isDrawing, prediction, probs, busy, previewHost, hPc>>

\* img.onload: white fill, drawImage, reset of the results.
ImageLoads ==
    /\ loadPc = "loading"
    /\ \E image \in LoadedImages : canvas' = image
    /\ prediction' = NoDigit
    /\ probs' = <<>>
    /\ previewHost' = "empty"
    /\ loadPc' = "idle"
    /\ UNCHANGED notHandVars
    /\ UNCHANGED <<appVars, onnxVars, runTensor, hwSession, hwModelStatus,
                   history, isDrawing, busy, hPc, snapshots>>

\* img.onerror: the promise rejects and the function ends in its finally.
ImageFails ==
    /\ loadPc = "loading"
    /\ loadPc' = "idle"
    /\ UNCHANGED notHandVars
    /\ UNCHANGED <<appVars, onnxVars, runTensor, hwSession, hwModelStatus,
                   canvas, history, isDrawing, prediction, probs, busy,
                   previewHost, hPc, snapshots>>

\* if (!hasInk)
NoInkMutant(result) == FALSE
NoInk(result) == ~result.hasInk

\* recognize, from the click to its return or to `await session.run`.  The
\* button is disabled while busy or while the model is not ready.
Recognize ==
    /\ HandMounted
    /\ hwSession /\ hwModelStatus = "ready" /\ ~busy
    /\ \E ctxFail \in CtxFailures :
         LET result == preprocessMnistFromCanvas(canvas, ctxFail)
         IN  IF result.threw
             THEN /\ busy' = FALSE
                  /\ UNCHANGED <<runTensor, prediction, probs, previewHost, hPc>>
             ELSE /\ previewHost' = result.previewCanvas
                  /\ IF NoInk(result)
                     THEN /\ prediction' = NoDigit
                          /\ probs' = <<>>
                          /\ busy' = FALSE
                          /\ UNCHANGED <<runTensor, hPc>>
                     ELSE /\ runTensor' = Tensor(result.tensorData, ImageDims)
                          /\ busy' = TRUE
                          /\ hPc' = "infer"
                          /\ UNCHANGED <<prediction, probs>>
    /\ UNCHANGED notHandVars
    /\ UNCHANGED <<appVars, onnxVars, hwSession, hwModelStatus, canvas,
                   history, isDrawing, loadPc, snapshots>>

\* session.run resolves: softmax, ranking, then finally.
RecognizeResult ==
    /\ hPc = "infer"
    /\ \E logits \in LogitChoices :
         LET ranked == Ranked(softmax(logits))
         IN  /\ probs' = ranked
             /\ prediction' = TopDigit(ranked)
    /\ busy' = FALSE
    /\ hPc' = "idle"
    /\ runTensor' = NoTensor
    /\ UNCHANGED notHandVars
    /\ UNCHANGED <<appVars, onnxVars, hwSession, hwModelStatus, canvas,
                   history, isDrawing, previewHost, loadPc, snapshots>>

\* session.run rejects: finally resets busy.
RecognizeFails ==
    /\ hPc = "infer"
    /\ busy' = FALSE
    /\ hPc' = "idle"
    /\ runTensor' = NoTensor
    /\ UNCHANGED notHandVars
    /\ UNCHANGED <<appVars, onnxVars, hwSession, hwModelStatus, canvas,
                   history, isDrawing, prediction, probs, previewHost, loadPc,
                   snapshots>>

NextHand ==
    \/ HandMount
    \/ ImageSessionSettles
    \/ HandSessionArrives
    \/ OnPointerDown
    \/ OnPointerMove
    \/ StopDrawing
    \/ ClearCanvas
    \/ Undo
    \/ LoadImageToCanvas
    \/ ImageLoads
    \/ ImageFails
    \/ Recognize
    \/ RecognizeResult
    \/ RecognizeFails

----------------------------------------------------------------------------
(* lib/melSpectrogram.ts: bitReversePermutation and fftInPlace             *)
(*                                                                         *)
(* The transform is computed as the code computes it, in exact arithmetic: *)
(* a real number is <<r, s>>, standing for r + s * sqrt(2) with r and s    *)
(* fractions, which holds every value the code forms for lengths up to 8   *)
(* (the rounding of each operation to float32 / double is not modelled).   *)
(* The arrays re and im are the fields of one record.                      *)

Num(n) == <<Frac(n, 1), Zero>>
Add(x, y) == <<FracAdd(x[1], y[1]), FracAdd(x[2], y[2])>>
Sub(x, y) == <<FracSub(x[1], y[1]), FracSub(x[2], y[2])>>
Mul(x, y) ==
    <<FracAdd(FracMul(x[1], y[1]), FracMul(Frac(2, 1), FracMul(x[2], y[2]))),
      FracAdd(FracMul(x[1], y[2]), FracMul(x[2], y[1]))>>

HalfRoot2 == <<Zero, Frac(1, 2)>>          \* sqrt(2) / 2
MinusHalfRoot2 == <<Zero, Frac(-1, 2)>>

\* while (j & bit) { j ^= bit; bit >>= 1; }  j ^= bit
RECURSIVE NextReversed(_, _)
NextReversed(j, bit) ==
    IF bit > 0 /\ (j \div bit) % 2 = 1
    THEN NextReversed(j - bit, bit \div 2)
    ELSE j + bit

Swap(a, i, j) == [a EXCEPT ![i] = a[j], ![j] = a[i]]

\* The loop of bitReversePermutation from index i on, j being the reversed
\* index of i - 1.
RECURSIVE bitReverseFrom(_, _, _)
bitReverseFrom(x, i, j) ==
    IF i >= Length(x.re)
    THEN x
    ELSE LET r == NextReversed(j, Length(x.re) \div 2)
             swapped == IF i < r
                        THEN [re |-> Swap(x.re, i, r), im |-> Swap(x.im, i, r)]
                        ELSE x
         IN  bitReverseFrom(swapped, i + 1, r)

bitReversePermutationMutant(x) == x
bitReversePermutation(x) == bitReverseFrom(x, 1, 0)

\* Math.cos(ang) and Math.sin(ang) for ang = (-2 * Math.PI) / len
wLenRe(len) ==
    CASE len = 2 -> Num(-1)
      [] len = 4 -> Num(0)
      [] len = 8 -> HalfRoot2
wLenIm(len) ==
    CASE len = 2 -> Num(0)
      [] len = 4 -> Num(-1)
      [] len = 8 -> MinusHalfRoot2

\* The body of the innermost loop: one butterfly on the elements i + j and
\* i + j + len / 2 with the twiddle factor w.
Butterfly(x, lo, hi, w) ==
    LET uRe == x.re[lo]
        uIm == x.im[lo]
        vRe == Sub(Mul(x.re[hi], w.re), Mul(x.im[hi], w.im))
        vIm == Add(Mul(x.re[hi], w.im), Mul(x.im[hi], w.re))
    IN  [re |-> [x.re EXCEPT ![lo] = Add(uRe, vRe), ![hi] = Sub(uRe, vRe)],
         im |-> [x.im EXCEPT ![lo] = Add(uIm, vIm), ![hi] = Sub(uIm, vIm)]]

\* nextWRe = wRe * wLenRe - wIm * wLenIm; wIm = wRe * wLenIm + wIm * wLenRe
NextTwiddle(w, len) ==
    [re |-> Sub(Mul(w.re, wLenRe(len)), Mul(w.im, wLenIm(len))),
     im |-> Add(Mul(w.re, wLenIm(len)), Mul(w.im, wLenRe(len)))]

\* for (let j = 0; j < len / 2; j++)
RECURSIVE ButterfliesFrom(_, _, _, _, _)
ButterfliesFrom(x, i, j, len, w) ==
    IF j >= len \div 2
    THEN x
    ELSE ButterfliesFrom(Butterfly(x, i + j, i + j + len \div 2, w),
                         i, j + 1, len, NextTwiddle(w, len))

\* for (let i = 0; i < n; i += len), with wRe = 1, wIm = 0 at each start
RECURSIVE BlocksFrom(_, _, _)
BlocksFrom(x, i, len) ==
    IF i >= Length(x.re)
    THEN x
    ELSE BlocksFrom(ButterfliesFrom(x, i, 0, len, [re |-> Num(1), im |-> Num(0)]),
                    i + len, len)

\* for (let len = 2; len <= n; len <<= 1)
RECURSIVE StagesFrom(_, _)
StagesFrom(x, len) ==
    IF len > Length(x.re)
    THEN x
    ELSE StagesFrom(BlocksFrom(x, 0, len), 2 * len)

\* re and im after fftInPlace(re, im)
fftInPlace(x) == StagesFrom(bitReversePermutation(x), 2)

----------------------------------------------------------------------------
(* Calls of the other pure functions on drawn arguments                    *)

CallIdle ==
    /\ fnOp = "none"
    /\ fnArgs = <<>>
    /\ fnResult = <<>>

notCallVars == <<pageVars, libVars, audioVars, melVars, preVars>>

\* The function called on the drawn arguments
Call(fn, args) == [fn |-> fn, args |-> args]

MaxBin == 4              \* drawn bins: 0..MaxBin and the two highest

\* bin[m - 1], bin[m], bin[m + 1]: the bins are non-decreasing in m, as
\* melPoints, melToHz and Math.floor are.
BinValues == (0..MaxBin) \cup {nFftBins - 2, nFftBins - 1}

BinTriples ==
    { b \in BinValues \X BinValues \X BinValues : b[1] <= b[2] /\ b[2] <= b[3] }

CallMelFilter ==
    /\ fnOp = "none" /\ fnArgs.fn = "melFilter"
    /\ fnOp' = "melFilter"
    /\ fnResult' = MelFilter(fnArgs.args[1], fnArgs.args[2], fnArgs.args[3])
    /\ UNCHANGED <<notCallVars, fnArgs>>

MaxStep == 3             \* drawn probability vectors: steps 0..MaxStep

\* Length-10 vectors p[i] = (i * step + shift) % modulus: constant ones,
\* two-valued ones, ones with ties across the fifth place, and
\* permutations of 0..9.
ScoreVectors ==
    { [i \in 0..(NumClasses - 1) |-> (i * step + shift) % modulus] :
        step \in 0..MaxStep, shift \in 0..(NumClasses - 1),
        modulus \in 1..NumClasses }

\* p.map(...).sort(...).slice(0, 5)
CallRanked ==
    /\ fnOp = "none" /\ fnArgs.fn = "ranked"
    /\ fnOp' = "ranked"
    /\ fnResult' = Ranked(fnArgs.args)
    /\ UNCHANGED <<notCallVars, fnArgs>>

MaxShift == 2            \* constants -MaxShift..MaxShift added to the logits

\* x + c
Shifted(x, c) == [i \in DOMAIN x |-> x[i] + c]

\* softmax(x) and softmax(x + c), each with its divisor
CallSoftmax ==
    /\ fnOp = "none" /\ fnArgs.fn = "softmax"
    /\ fnOp' = "softmax"
    /\ LET x == fnArgs.args[1]
           y == Shifted(x, fnArgs.args[2])
       IN  fnResult' = [p |-> softmax(x), sum |-> softmaxSum(x),
                        shifted |-> softmax(y), shiftedSum |-> softmaxSum(y)]
    /\ UNCHANGED <<notCallVars, fnArgs>>

\* Transform lengths: the powers of two whose twiddle factors lie in the
\* rationals extended by sqrt(2).
FftLengths == {1, 2, 4, 8}

\* Complex inputs of length n: re of zeros and ones; im zero, re reversed,
\* or minus re rotated by one place.
ImOf(re, kind) ==
    LET n == Length(re)
    IN  [k \in DOMAIN re |->
            CASE kind = "zero"    -> 0
              [] kind = "reverse" -> re[n - 1 - k]
              [] kind = "rotate"  -> 0 - re[(k + 1) % n]]

FftInputs ==
    { [re |-> [k \in DOMAIN re |-> Num(re[k])],
       im |-> [k \in DOMAIN re |-> Num(ImOf(re, kind)[k])]] :
        re \in UNION { [0..(n - 1) -> {0, 1}] : n \in FftLengths },
        kind \in {"zero", "reverse", "rotate"} }

\* fftInPlace(re, im): the two arrays after the call
CallFft ==
    /\ fnOp = "none" /\ fnArgs.fn = "fftInPlace"
    /\ fnOp' = "fftInPlace"
    /\ fnResult' = fftInPlace(fnArgs.args)
    /\ UNCHANGED <<notCallVars, fnArgs>>

MaxCanvas == 5           \* drawn canvases: sides 1..MaxCanvas, and 320

\* The coordinates an ink box is drawn from on a side of the given length:
\* all of them on a small canvas, both ends and the middle on the page's.
BoxCoords(side) ==
    IF side <= MaxCanvas
    THEN 0..(side - 1)
    ELSE {0, 1, side \div 2 - 1, side \div 2, side - 2, side - 1}

CanvasSides == (1..MaxCanvas) \cup {CanvasSide}

\* The ink boxes on a canvas of the given size (lines 58-96 read only the
\* size and the box).
BoxesOn(width, height) ==
    { [minX |-> xs[1], minY |-> ys[1], maxX |-> xs[2], maxY |-> ys[2]] :
        xs \in { q \in BoxCoords(width) \X BoxCoords(width) : q[1] <= q[2] },
        ys \in { q \in BoxCoords(height) \X BoxCoords(height) : q[1] <= q[2] } }

\* Lines 58-67, 77-80, 94-95 on a canvas with the given ink box
CallLayout ==
    /\ fnOp = "none" /\ fnArgs.fn = "layout"
    /\ fnOp' = "layout"
    /\ fnResult' = LayoutOf(fnArgs.args[1], fnArgs.args[2])
    /\ UNCHANGED <<notCallVars, fnArgs>>

\* The frame loop of melSpectrogram128x32From16k (lines 133-137) on a
\* drawn buffer
CallFrames ==
    /\ fnOp = "none" /\ fnArgs.fn = "frames"
    /\ fnOp' = "frames"
    /\ fnResult' = FramesRead(fnArgs.args)
    /\ UNCHANGED <<notCallVars, fnArgs>>

NextCalls ==
    \/ CallMelFilter
    \/ CallRanked
    \/ CallSoftmax
    \/ CallFft
    \/ CallLayout
    \/ CallFrames

InitCalls ==
    /\ fnOp = "none"
    /\ fnResult = <<>>
    /\ \/ \E b \in BinTriples : fnArgs = Call("melFilter", b)
       \/ \E p \in ScoreVectors : fnArgs = Call("ranked", p)
       \/ \E x \in ScoreVectors, c \in (-MaxShift)..MaxShift :
              fnArgs = Call("softmax", <<x, c>>)
       \/ \E x \in FftInputs : fnArgs = Call("fftInPlace", x)
       \/ \E width \in CanvasSides, height \in CanvasSides :
            \E box \in BoxesOn(width, height) :
              fnArgs = Call("layout", <<Canvas(width, height, NoPaint), box>>)
       \/ \E kind \in SignalKinds, n \in MelLengths :
              fnArgs = Call("frames", Signal(kind, n))

----------------------------------------------------------------------------
(* The application *)

AppInit ==
    /\ tab \in Tabs
    /\ effects = "pending"
    /\ ortConfigured = FALSE
    /\ ortCalls = [image |-> 0, speech |-> 0, configure |-> 0,
                   afterError |-> 0]
    /\ imageSessionPromise = Null
    /\ speechSessionPromise = Null
    /\ runTensor = NoTensor
    /\ cachedWindow = Null
    /\ cachedFilters = Null
    /\ built = [window |-> 0, filters |-> 0, calls |-> 0]
    /\ EvalInit
    /\ VoiceInit
    /\ mode \in {"ai", "browser"}
    /\ speechSupported \in BOOLEAN
    /\ HandInit

Init == AppInit /\ AudioIdle /\ MelIdle /\ PreIdle /\ CallIdle

\* onClick={() => setTab(t)}: the page shown is unmounted and the page of
\* tab t is mounted with fresh state; its effects run next.  The module
\* variables of lib/onnx and lib/melSpectrogram and the stored voice mode
\* stay.  A call of the unmounted page that is still awaiting no longer
\* reaches any state of the app and is not followed.
SetTab ==
    /\ \E t \in Tabs : t # tab /\ tab' = t
    /\ effects' = "pending"
    /\ runTensor' = NoTensor
    /\ evSession' = FALSE /\ evModelStatus' = "loading"
    /\ dataset' = NoDataset /\ dataStatus' = "loading"
    /\ running' = FALSE /\ done' = 0 /\ total' = 0 /\ correct' = 0
    /\ conf' = ZeroConf /\ evPc' = "idle" /\ evI' = 0
    /\ localCorrect' = 0 /\ localConf' = ZeroConf /\ evalRuns' = 0
    /\ speechSession' = FALSE /\ speechModelStatus' = "loading"
    /\ aiBusy' = FALSE /\ digit' = NoDigit /\ aiProbs' = <<>> /\ err' = ""
    /\ vPc' = "idle" /\ melInput' = NoBuffer
    /\ listening' = FALSE /\ transcript' = "" /\ recPc' = "idle"
    /\ hwSession' = FALSE /\ hwModelStatus' = "loading"
    /\ canvas' = BlankCanvas /\ history' = <<>> /\ isDrawing' = FALSE
    /\ prediction' = NoDigit /\ probs' = <<>> /\ busy' = FALSE
    /\ previewHost' = "empty" /\ hPc' = "idle" /\ loadPc' = "idle"
    /\ snapshots' = 0
    /\ UNCHANGED <<onnxVars, libVars, pureVars, mode, speechSupported>>

Next == SetTab \/ NextEval \/ NextVoice \/ NextHand

Spec == Init /\ [][Next]_vars

\* Every pending promise settles: session.run, recordMono and
\* decodeAudioFileToMono each resolve or reject.  Nothing obliges the user
\* to act.
PromisesSettle ==
    /\ WF_vars(RunEvalStep \/ RunEvalFails)
    /\ WF_vars(RecognizeResult \/ RecognizeFails)
    /\ WF_vars(RecordArrives \/ DecodeArrives \/ VoiceResult \/ VoiceFails)

InitEval == Init /\ tab = "eval" /\ mode = "ai" /\ ~speechSupported

SpecEval == InitEval /\ [][NextEval]_vars

LiveSpecEval == SpecEval /\ PromisesSettle

\* One call of a lib/audio function on a drawn buffer.
InitAudio ==
    /\ AppInit /\ tab = "spec" /\ mode = "ai" /\ ~speechSupported
    /\ MelIdle /\ PreIdle /\ CallIdle
    /\ auInput \in Buffers(MaxLen)
    /\ auRate = <<0, 0>>
    /\ auTarget = 0
    /\ auOp = "none"
    /\ auResult = <<>>
    /\ auAlias = "none"

SpecAudio == InitAudio /\ [][NextAudio]_vars

\* One buffer handed to the functions of lib/audio and to
\* melSpectrogram128x32From16k, as VoicePage hands the buffer it captured.
InitBuffers ==
    /\ AppInit /\ tab = "spec" /\ mode = "ai" /\ ~speechSupported
    /\ PreIdle /\ CallIdle
    /\ \E kind \in SignalKinds, n \in 0..MaxLen :
         /\ auInput = Signal(kind, n)
         /\ melSamples = Signal(kind, n)
    /\ auRate = <<0, 0>>
    /\ auTarget = 0
    /\ auOp = "none"
    /\ auResult = <<>>
    /\ auAlias = "none"
    /\ melOp = "none"
    /\ melResult = <<>>

SpecBuffers == InitBuffers /\ [][NextAudio \/ NextMel]_vars

\* One call of a pure function of lib/melSpectrogram or of the pages.
InitPureCall ==
    /\ AppInit /\ tab = "spec" /\ mode = "ai" /\ ~speechSupported
    /\ AudioIdle /\ MelIdle /\ PreIdle
    /\ InitCalls

SpecCalls == InitPureCall /\ [][NextCalls]_vars

\* One call of melSpectrogram128x32From16k on a drawn buffer.
InitMel ==
    /\ AppInit /\ tab = "spec" /\ mode = "ai" /\ ~speechSupported
    /\ AudioIdle /\ PreIdle /\ CallIdle
    /\ \E kind \in SignalKinds, n \in MelLengths : melSamples = Signal(kind, n)
    /\ melOp = "none"
    /\ melResult = <<>>

SpecMel == InitMel /\ [][NextMel]_vars

InitVoice == Init /\ tab = "voice"

SpecVoice == InitVoice /\ [][NextVoice]_vars

\* One call of preprocessMnistFromCanvas on a drawn canvas.
InitPre ==
    /\ AppInit /\ tab = "spec" /\ mode = "ai" /\ ~speechSupported
    /\ AudioIdle /\ MelIdle /\ CallIdle
    /\ \E size \in CanvasSizes : preCanvas \in CanvasesOf(size[1], size[2])
    /\ preCtx \in CtxFailures
    /\ preOp = "none"
    /\ preResult = Thrown("", NoBox)

SpecPre == InitPre /\ [][NextPre]_vars

InitHand == Init /\ tab = "handwriting" /\ mode = "ai" /\ ~speechSupported

SpecHand == InitHand /\ [][NextHand]_vars

----------------------------------------------------------------------------
(* Properties of EvalPage (checked under SpecEval)                         *)

RECURSIVE SumFrom(_, _)
SumFrom(row, i) == IF i >= Length(row) THEN 0 ELSE row[i] + SumFrom(row, i + 1)

RECURSIVE SumRowsFrom(_, _)
SumRowsFrom(m, y) ==
    IF y >= Length(m) THEN 0 ELSE SumFrom(m[y], 0) + SumRowsFrom(m, y + 1)

SumCells(m) == SumRowsFrom(m, 0)

RECURSIVE DiagFrom(_, _)
DiagFrom(m, y) == IF y >= Length(m) THEN 0 ELSE m[y][y] + DiagFrom(m, y + 1)

SumDiagonal(m) == DiagFrom(m, 0)

\* C1: after evI accumulation steps of a run the cells of the confusion
\* matrix sum to evI and its diagonal sums to localCorrect, the number of
\* steps whose prediction equalled the label; and every snapshot published
\* to the UI has cells summing to done and a diagonal summing to correct.
C1_ConfusionCounts ==
    /\ SumCells(localConf) = evI
    /\ SumDiagonal(localConf) = localCorrect
    /\ SumCells(conf) = done
    /\ SumDiagonal(conf) = correct

\* C1 witness: a snapshot published in the middle of a run, after ten
\* accumulations of which some but not all were correct.
C1_Witness ==
    /\ running /\ evPc = "infer"
    /\ done = PublishEvery
    /\ 0 < correct /\ correct < done

\* C2: when a run of runEval has started and not yet accumulated its first
\* sample, the published matrix and the run's own matrix are all zeros and
\* the counters correct, done and localCorrect are 0, whatever an earlier
\* run left.
C2_ResetAtRunStart ==
    (evPc = "infer" /\ evI = 0) =>
        /\ conf = ZeroConf /\ done = 0 /\ correct = 0
        /\ localConf = ZeroConf /\ localCorrect = 0

\* C2 witness: the second run has started, after a first run that went
\* through the whole dataset, and waits for its first inference.
C2_Witness == evalRuns = 2 /\ evPc = "infer" /\ evI = 0 /\ running

\* C3: whenever an accuracy is shown for a snapshot of at least one sample,
\* it is (as a percentage) the diagonal sum of the published matrix divided
\* by the number of samples processed so far.
C3_AccuracyOverProcessed ==
    done > 0 => accuracy[1] * done = 100 * SumDiagonal(conf) * accuracy[2]

----------------------------------------------------------------------------
(* Properties of lib/audio (checked under SpecAudio)                       *)

\* C4: takeOrPadToLength(x, L) has length exactly L; its first
\* min(len(x), L) entries are the first entries of x, in order, and the
\* remaining entries are zero.
C4_TakeOrPad ==
    auOp = "takeOrPadToLength" =>
        LET kept == Min(Len(auInput), auTarget)
        IN  /\ Len(auResult) = auTarget
            /\ \A i \in 0..(kept - 1) : At(auResult, i) = At(auInput, i)
            /\ \A i \in kept..(auTarget - 1) : At(auResult, i) = Zero

\* C4 witness: a buffer of non-zero samples was padded at its end.
C4_Witness ==
    /\ auOp = "takeOrPadToLength"
    /\ 1 < Len(auInput) /\ Len(auInput) < auTarget
    /\ \A i \in 0..(Len(auInput) - 1) : At(auInput, i) # Zero

\* C5: for an input longer than the target, takeCenterSegment returns the
\* target samples input[start .. start + target - 1] with
\* start = floor((len - target) / 2), so the samples dropped before and
\* after the segment differ in number by at most 1; for an input not longer
\* than the target it returns takeOrPadToLength(input, target).
C5_TakeCenter ==
    auOp = "takeCenterSegment" =>
        IF Len(auInput) > auTarget
        THEN LET start == (Len(auInput) - auTarget) \div 2
                 after == Len(auInput) - (start + auTarget)
             IN  /\ Len(auResult) = auTarget
                 /\ \A i \in 0..(auTarget - 1) :
                        At(auResult, i) = At(auInput, start + i)
                 /\ after - start \in {0, 1}
        ELSE auResult = takeOrPadToLength(auInput, auTarget)

\* C5 witness: one sample was cut from a buffer of three distinct-neighbour
\* samples whose excess over the target is odd.
C5_Witness ==
    /\ auOp = "takeCenterSegment"
    /\ Len(auInput) = 3 /\ auTarget = 2
    /\ At(auInput, 0) # At(auInput, 1) /\ At(auInput, 1) # At(auInput, 2)

\* C11: resampleLinear(x, r, r) returns x itself: the object returned is
\* the argument, not a copy, and its samples are the argument's samples,
\* for every buffer x and every rate r.
C11_ResampleIdentity ==
    (auOp = "resampleLinear" /\ auRate[1] = auRate[2]) =>
        /\ auAlias = "input"
        /\ auResult = auInput

C11_Witness ==
    /\ auOp = "resampleLinear"
    /\ auRate[1] = auRate[2]
    /\ Len(auInput) = MaxLen
    /\ auAlias = "input"

\* C12: when the rates differ resampleLinear returns a buffer of
\* max(1, round(inputLength * outputRate / inputRate)) samples, round being
\* Math.round (the nearest integer, halves upwards); an empty input gives a
\* buffer of one sample.
C12_ResampleLength ==
    (auOp = "resampleLinear" /\ auRate[1] # auRate[2]) =>
        /\ \E r \in 0..(Len(auInput) * auRate[2] + 1) :
             /\ -auRate[1] < 2 * auRate[1] * r - 2 * Len(auInput) * auRate[2]
             /\ 2 * auRate[1] * r - 2 * Len(auInput) * auRate[2] <= auRate[1]
             /\ Len(auResult) = IF r > 1 THEN r ELSE 1
        /\ (auInput = <<>> => Len(auResult) = 1)

C12_Witness ==
    /\ auOp = "resampleLinear"
    /\ auRate[1] # auRate[2]
    /\ auInput = <<>>
    /\ Len(auResult) = 1

\* C23: in resampleLinear with differing rates and a non-empty input, for
\* every output index i the source index idx = floor(i / ratio) lies in
\* [0, inputLength - 1]; the output is
\* input[idx] + (input[idx + 1] - input[idx]) * frac, and when idx + 1 is
\* past the end the missing sample is taken equal to input[idx], so the
\* output equals the last valid sample and no value outside the input is
\* used.
C23_Interpolation ==
    (auOp = "resampleLinear" /\ auRate[1] # auRate[2] /\ auInput # <<>>) =>
        \A i \in 0..(Len(auResult) - 1) :
            \E idx \in 0..(Len(auInput) - 1) :
                \* idx <= i * inputRate / outputRate < idx + 1
                /\ idx * auRate[2] <= i * auRate[1]
                /\ i * auRate[1] < (idx + 1) * auRate[2]
                /\ LET a == auInput[idx + 1]
                       frac == Frac(i * auRate[1] - idx * auRate[2], auRate[2])
                   IN  IF idx + 1 <= Len(auInput) - 1
                       THEN auResult[i + 1] =
                              FracAdd(a, FracMul(FracSub(auInput[idx + 2], a), frac))
                       ELSE auResult[i + 1] = a

\* An upsampled buffer whose last outputs fall between the last sample and
\* the end, and whose earlier ones lie strictly between two samples.
C23_Witness ==
    /\ auOp = "resampleLinear"
    /\ auRate = <<2, 3>>
    /\ Len(auInput) = 3
    /\ auInput[2] # auInput[3]
    /\ auInput[1] # auInput[2]
    /\ auResult[2] # auInput[1] /\ auResult[2] # auInput[2]
    /\ auResult[Len(auResult)] = auInput[3]

\* C19 (checked under SpecBuffers): resampleLinear, takeOrPadToLength,
\* takeCenterSegment and melSpectrogram128x32From16k never write to their
\* input buffer: after every call the argument has the length and the
\* contents it had before.
C19_InputNotWritten ==
    [][auInput' = auInput /\ melSamples' = melSamples]_vars

\* A view of the buffer was returned by takeCenterSegment and the buffer
\* was also given to melSpectrogram128x32From16k.
C19_Witness ==
    /\ auOp = "takeCenterSegment"
    /\ auAlias = "input.subarray"
    /\ melOp # "none"
    /\ Len(melSamples) = MaxLen
    /\ auInput = melSamples

----------------------------------------------------------------------------
(* Properties of VoicePage (checked under SpecVoice)                       *)

\* C6: whatever audio recordMono or decodeAudioFileToMono resolved with
\* (any length, the empty capture included, at any sample rate), the buffer
\* that runAiOnce and runAiFromFile pass to melSpectrogram128x32From16k has
\* exactly 16000 samples.
C6_MelInputOneSecond ==
    melInput # NoBuffer => melInput.length = SAMPLE_RATE

\* A capture longer than one second has been cut and is at the engine.
C6_Witness ==
    /\ vPc = "infer"
    /\ melInput.from > SAMPLE_RATE
    /\ melInput.length = SAMPLE_RATE

\* C15: the Hann window and the mel filterbank are each built at most once
\* per process: the first call of getWindow / getMelFilters builds the
\* value, every later call returns the cached one, and no step changes a
\* cached value once it is built.
C15_BuiltOnce ==
    /\ [](built.window <= 1 /\ built.filters <= 1)
    /\ [][/\ (cachedWindow # Null => cachedWindow' = cachedWindow)
          /\ (cachedFilters # Null => cachedFilters' = cachedFilters)]_vars

\* A second call of melSpectrogram128x32From16k has been served from the
\* caches.
C15_Witness ==
    /\ built.calls = 2
    /\ built.window = 1 /\ built.filters = 1
    /\ cachedWindow # Null /\ cachedFilters # Null
    /\ vPc = "infer"

----------------------------------------------------------------------------
(* Properties of lib/melSpectrogram (checked under SpecMel)                *)

\* C7: for an input buffer of any length (0, shorter than, equal to or
\* longer than 16000) melSpectrogram128x32From16k returns a flat array of
\* exactly N_MELS * N_FRAMES = 4096 values in which the value of mel band m
\* and frame t is at index m * N_FRAMES + t; so every index holds the value
\* written for its band and frame and none is left unwritten.
C7_MelShape ==
    melOp # "none" =>
        /\ Len(melResult) = N_MELS * N_FRAMES
        /\ \A m \in 0..(N_MELS - 1), t \in 0..(N_FRAMES - 1) :
             LET v == At(melResult, m * N_FRAMES + t)
             IN  v.band = m /\ v.frame = t
        /\ \A k \in 1..Len(melResult) : melResult[k] # NotWritten

\* The call was made on a buffer longer than one second.
C7_Witness ==
    /\ melOp # "none"
    /\ Len(melSamples) > SAMPLE_RATE
    /\ Len(melResult) = N_MELS * N_FRAMES

\* C13: for an input buffer whose samples are all zero, of any length
\* (the empty buffer included), every one of the 4096 values returned by
\* melSpectrogram128x32From16k is zero: each was computed from a frame
\* whose windowed samples are all zero.
C13_SilenceInSilenceOut ==
    (melOp # "none" /\ \A k \in 1..Len(melSamples) : melSamples[k] = Zero) =>
        /\ Len(melResult) = 4096
        /\ \A k \in 1..Len(melResult) : melResult[k].silent

\* The call was made on one second and more of silence.
C13_Witness ==
    /\ melOp # "none"
    /\ Len(melSamples) > SAMPLE_RATE
    /\ \A k \in 1..Len(melSamples) : melSamples[k] = Zero
    /\ \A k \in 1..Len(melResult) : melResult[k].silent

----------------------------------------------------------------------------
(* Properties of the other pure functions (checked under SpecCalls)        *)

\* C14: in the filter getMelFilters builds for a band from left = bin(m-1),
\* center = bin(m), right = bin(m+1), every weight is non-negative and the
\* weight is zero at every FFT bin outside [left, right]; when
\* right <= left the whole filter is zero.
C14_FilterCoverage ==
    fnOp = "melFilter" =>
        LET left == fnArgs.args[1]
            right == fnArgs.args[3]
        IN  /\ Len(fnResult) = 513
            /\ \A k \in 0..512 :
                 /\ At(fnResult, k)[1] >= 0 /\ At(fnResult, k)[2] > 0
                 /\ (k < left \/ k > right) => At(fnResult, k) = Zero
                 /\ right <= left => At(fnResult, k) = Zero

\* A filter with a rising and a falling side was built.
C14_Witness ==
    /\ fnOp = "melFilter"
    /\ fnArgs.args[1] + 1 < fnArgs.args[2]
    /\ fnArgs.args[2] + 1 < fnArgs.args[3]
    /\ At(fnResult, fnArgs.args[2] - 1) # Zero
    /\ At(fnResult, fnArgs.args[2] + 1) # Zero

\* C16: for a length-10 probability vector the ranking computed in
\* recognize, runAiOnce and runAiFromFile has exactly 5 entries, each a
\* class paired with its probability, with pairwise distinct classes, in
\* non-increasing probability order; every omitted class has a probability
\* <= that of the last kept entry; and classes of equal probability appear
\* in ascending class order.
C16_TopFive ==
    fnOp = "ranked" =>
        LET p == fnArgs.args
            r == fnResult
        IN  /\ DOMAIN r = 0..4
            /\ \A i \in 0..4 : r[i].digit \in 0..9 /\ r[i].p = p[r[i].digit]
            /\ \A i, j \in 0..4 :
                 i < j => /\ r[i].digit # r[j].digit
                          /\ r[i].p >= r[j].p
                          /\ (r[i].p = r[j].p => r[i].digit < r[j].digit)
            /\ \A c \in 0..9 :
                 (\A i \in 0..4 : r[i].digit # c) => p[c] <= r[4].p

\* A ranking whose tie runs across the fifth place.
C16_Witness ==
    /\ fnOp = "ranked"
    /\ fnResult[3].p = fnResult[4].p
    /\ fnResult[0].p > fnResult[4].p
    /\ \E c \in 0..9 :
         /\ \A i \in 0..4 : fnResult[i].digit # c
         /\ fnArgs.args[c] = fnResult[4].p

\* The quotients exp(p[i]) / sum with the largest exponent of the divisor
\* brought to 0: equal forms are equal probability vectors.
Greatest(S) == CHOOSE m \in S : \A v \in S : v <= m
Normal(p, sum) ==
    LET m == Greatest(DOMAIN sum)
    IN  [p   |-> [i \in DOMAIN p |-> p[i] - m],
         sum |-> [v \in { d - m : d \in DOMAIN sum } |-> sum[v + m]]]

EighthRoot(m) ==
    CASE m = 0 -> [re |-> Num(1),         im |-> Num(0)]
      [] m = 1 -> [re |-> HalfRoot2,      im |-> MinusHalfRoot2]
      [] m = 2 -> [re |-> Num(0),         im |-> Num(-1)]
      [] m = 3 -> [re |-> MinusHalfRoot2, im |-> MinusHalfRoot2]
      [] m = 4 -> [re |-> Num(-1),        im |-> Num(0)]
      [] m = 5 -> [re |-> MinusHalfRoot2, im |-> HalfRoot2]
      [] m = 6 -> [re |-> Num(0),         im |-> Num(1)]
      [] m = 7 -> [re |-> HalfRoot2,      im |-> HalfRoot2]

\* The terms n .. N-1 of  sum over n of x[n] * exp(-2 * pi * i * k * n / N)
RECURSIVE DftFrom(_, _, _)
DftFrom(x, k, n) ==
    IF n >= Length(x.re)
    THEN [re |-> Num(0), im |-> Num(0)]
    ELSE LET w == EighthRoot((k * n * (8 \div Length(x.re))) % 8)
             rest == DftFrom(x, k, n + 1)
         IN  [re |-> Add(Sub(Mul(x.re[n], w.re), Mul(x.im[n], w.im)), rest.re),
              im |-> Add(Add(Mul(x.re[n], w.im), Mul(x.im[n], w.re)), rest.im)]

\* C18: for two equal-length sequences re, im whose length N is a power of
\* two, fftInPlace leaves in them the unnormalized forward DFT
\* X[k] = sum over n of x[n] * exp(-2*pi*i*k*n/N) of x = re + i*im, for
\* every k in 0..N-1.
C18_ForwardDft ==
    fnOp = "fftInPlace" =>
        /\ DOMAIN fnResult.re = DOMAIN fnArgs.args.re
        /\ DOMAIN fnResult.im = DOMAIN fnArgs.args.im
        /\ \A k \in DOMAIN fnArgs.args.re :
             /\ fnResult.re[k] = DftFrom(fnArgs.args, k, 0).re
             /\ fnResult.im[k] = DftFrom(fnArgs.args, k, 0).im

\* A transform of length 8 of an input with non-zero imaginary parts whose
\* result has an irrational component.
C18_Witness ==
    /\ fnOp = "fftInPlace"
    /\ Length(fnArgs.args.re) = 8
    /\ \E k \in 0..7 : fnArgs.args.im[k] # Num(0)
    /\ \E k \in 0..7 : fnResult.re[k][2] # Zero
    /\ fnResult # fnArgs.args

\* C21: the crop rectangle is the ink bounding box expanded on each of its
\* four sides by 20% of the box's larger dimension (rounded to whole
\* pixels) and clipped to the canvas bounds: it lies within
\* [0, width-1] x [0, height-1], contains the whole bounding box, and has
\* width and height >= 1.
C21_CropRectangle ==
    fnOp = "layout" =>
        LET c == fnArgs.args[1]
            box == fnArgs.args[2]
            crop == fnResult
            right == crop.cropX + crop.cropW - 1
            bottom == crop.cropY + crop.cropH - 1
            larger == IF box.maxX - box.minX >= box.maxY - box.minY
                      THEN box.maxX - box.minX + 1
                      ELSE box.maxY - box.minY + 1
        IN  \E m \in 0..larger :
              \* m is larger / 5 rounded to the nearest whole number
              /\ 10 * m <= 2 * larger + 5 /\ 2 * larger + 5 < 10 * m + 10
              /\ crop.cropX = (IF box.minX - m < 0 THEN 0 ELSE box.minX - m)
              /\ crop.cropY = (IF box.minY - m < 0 THEN 0 ELSE box.minY - m)
              /\ right = (IF box.maxX + m > c.width - 1
                          THEN c.width - 1 ELSE box.maxX + m)
              /\ bottom = (IF box.maxY + m > c.height - 1
                           THEN c.height - 1 ELSE box.maxY + m)
              /\ 0 <= crop.cropX /\ right <= c.width - 1
              /\ 0 <= crop.cropY /\ bottom <= c.height - 1
              /\ crop.cropX <= box.minX /\ box.maxX <= right
              /\ crop.cropY <= box.minY /\ box.maxY <= bottom
              /\ crop.cropW >= 1 /\ crop.cropH >= 1

\* A box whose margin is cut by the canvas on the left and kept whole on
\* the right.
C21_Witness ==
    /\ fnOp = "layout"
    /\ fnResult.margin > 0
    /\ fnArgs.args[2].minX - fnResult.margin < 0
    /\ fnResult.cropX + fnResult.cropW - 1
         = fnArgs.args[2].maxX + fnResult.margin
    /\ fnArgs.args[2].minY > 0

\* C22: for every crop of width and height >= 1 the scaled image's larger
\* dimension is exactly 20 pixels and its smaller dimension is between 1
\* and 20, and it is pasted at offsets floor((28 - scaledW) / 2),
\* floor((28 - scaledH) / 2), so the pasted image lies inside the 28 x 28
\* canvas with a border of at least 4 pixels on the sides of its larger
\* dimension.
C22_ScaledAndCentred ==
    (fnOp = "layout" /\ fnResult.cropW >= 1 /\ fnResult.cropH >= 1) =>
        LET l == fnResult
            wide == l.cropW >= l.cropH
            tall == l.cropH >= l.cropW
        IN  /\ wide => l.scaledW = 20 /\ l.scaledH \in 1..20
            /\ tall => l.scaledH = 20 /\ l.scaledW \in 1..20
            /\ 2 * l.offsetX <= 28 - l.scaledW /\ 28 - l.scaledW < 2 * l.offsetX + 2
            /\ 2 * l.offsetY <= 28 - l.scaledH /\ 28 - l.scaledH < 2 * l.offsetY + 2
            /\ 0 <= l.offsetX /\ l.offsetX + l.scaledW <= 28
            /\ 0 <= l.offsetY /\ l.offsetY + l.scaledH <= 28
            /\ wide => l.offsetX >= 4 /\ 28 - (l.offsetX + l.scaledW) >= 4
            /\ tall => l.offsetY >= 4 /\ 28 - (l.offsetY + l.scaledH) >= 4

\* A crop much taller than wide, whose scaled width is raised to 1 and
\* pasted off centre by the floor.
C22_Witness ==
    /\ fnOp = "layout"
    /\ fnResult.cropH > 40 * fnResult.cropW
    /\ fnResult.scaledW = 1
    /\ fnResult.scaledH = 20
    /\ fnResult.offsetX = 13

\* C24: for a 16000-sample input, centre padding of nFft / 2 = 512 zeros
\* on both sides with hop 512 and window 1024 gives exactly 32 frames:
\* frame t reads the padded indices t * 512 .. t * 512 + 1023, every such
\* index is inside the padded buffer, and every input sample falls inside
\* at least one of the 32 frames; for shorter inputs every index past the
\* padded buffer reads as zero and the 32 frames are still formed.
C24_Framing ==
    fnOp = "frames" =>
        LET n == Len(fnArgs.args)
            frames == fnResult
        IN  /\ Len(frames) = 32
            /\ \A t \in 0..31 :
                 /\ At(frames, t).first = t * 512
                 /\ At(frames, t).last = t * 512 + 1023
                 /\ At(frames, t).count = 1024
            /\ n = 16000 =>
                 /\ \A t \in 0..31 : At(frames, t).outside = {}
                 /\ \A j \in 0..(n - 1) :
                      \E t \in 0..31 :
                          /\ At(frames, t).first <= j + 512
                          /\ j + 512 <= At(frames, t).last
                 \* and each non-zero sample is read where it lies
                 /\ \A t \in 0..31 :
                      At(frames, t).nonZero =
                          { j \in (t * 512)..(t * 512 + 1023) :
                              /\ j - 512 \in 0..(n - 1)
                              /\ At(fnArgs.args, j - 512) # Zero }
            /\ n < 16000 =>
                 \A t \in 0..31 :
                     /\ At(frames, t).outside =
                            { j \in (t * 512)..(t * 512 + 1023) : j >= n + 1024 }
                     /\ At(frames, t).outside \cap At(frames, t).nonZero = {}

\* One second of a signal that is not silent was framed.
C24_Witness ==
    /\ fnOp = "frames"
    /\ Len(fnArgs.args) = 16000
    /\ At(fnResult, 31).nonZero # {}
    /\ At(fnResult, 31).outside = {}

----------------------------------------------------------------------------
(* Properties of the three pages together (checked under Spec)             *)

\* C26: for each model (image, speech), over any number and interleaving of
\* createImageSession / createSpeechSession calls from any pages, at most
\* one InferenceSession.create is ever started and every caller receives
\* the same outcome; the ORT environment is configured at most once; and
\* an 'error' outcome is cached like a 'ready' one, so after a failed load
\* every later call returns the same error without retrying.
C26_OneSessionPerModel ==
    /\ [](/\ ortCalls.image <= 1 /\ ortCalls.speech <= 1
          /\ ortCalls.configure <= 1
          \* what each page received is the promise's outcome
          /\ evModelStatus # "loading" => evModelStatus = imageSessionPromise
          /\ hwModelStatus # "loading" => hwModelStatus = imageSessionPromise
          /\ speechModelStatus # "loading" =>
                 speechModelStatus = speechSessionPromise)
    /\ [][/\ imageSessionPromise \in {"ready", "error"} =>
                 imageSessionPromise' = imageSessionPromise
          /\ speechSessionPromise \in {"ready", "error"} =>
                 speechSessionPromise' = speechSessionPromise]_vars

\* After a failed load of the image model a page called createImageSession
\* again and received the same error; the speech model was created too.
C26_Witness ==
    /\ ortCalls.afterError = 1
    /\ ortCalls.image = 1 /\ ortCalls.speech = 1 /\ ortCalls.configure = 1
    /\ speechSessionPromise = "ready"
    /\ imageSessionPromise = "error"
    /\ tab = "handwriting" /\ hwModelStatus = "error"

\* C25 (checked under LiveSpecEval): every operation that invokes the inference
\* engine (runEval, recognize, runAiOnce, runAiFromFile) handles a failure
\* of the capture, decode or inference call: whether the call succeeds or
\* fails, the operation's busy flag (running, busy, aiBusy) is eventually
\* reset to false.
C25_BusyFlagsReset ==
    /\ running ~> ~running
    /\ busy ~> ~busy
    /\ aiBusy ~> ~aiBusy

\* recognize, runAiOnce and runAiFromFile: while the flag is set a promise
\* of the operation is pending, and each way it settles resets the flag
\* (RecognizeResult, RecognizeFails, VoiceResult, VoiceFails).
BusyOnlyWhilePending ==
    /\ busy => hPc = "infer"
    /\ aiBusy => vPc \in {"record", "decode", "infer"}

\* A runEval whose session.run rejected: the loop has ended and running is
\* still set.
RunEvalLeftRunning == evPc = "failed" /\ running

\* C8: every tensor handed to the inference engine has the declared shape
\* and as many values as the product of its dimensions: 1x1x28x28 with 784
\* values from the handwriting and evaluation pages, 1x1x128x32 with 4096
\* values from the voice page, whatever the user did before.
C8_TensorShapes ==
    runTensor # NoTensor =>
        \/ /\ tab \in {"handwriting", "eval"}
           /\ runTensor.dims = <<1, 1, 28, 28>>
           /\ runTensor.len = 784
        \/ /\ tab = "voice"
           /\ runTensor.dims = <<1, 1, 128, 32>>
           /\ runTensor.len = 4096

\* The voice page has the tensor of an empty capture at the engine after
\* a page that uses the image model was visited.
C8_Witness ==
    /\ tab = "voice"
    /\ runTensor # NoTensor
    /\ imageSessionPromise = "ready"
    /\ melInput.from = 0

----------------------------------------------------------------------------
(* Properties of lib/preprocessMnist (checked under SpecPre)               *)

\* No pixel of the canvas exceeds the ink threshold: 1 - red / 255 <= 0.12
NoPixelExceedsThreshold(c) ==
    \A x \in 0..(c.width - 1), y \in 0..(c.height - 1) :
        (White - RedAt(c, <<x, y>>)) * 100 <= 12 * White

BlankResult(result) ==
    /\ ~result.threw
    /\ result.tensorData = [k \in 1..(ImageSide * ImageSide) |-> Zero]
    /\ ~result.hasInk

\* C9, as stated: for a canvas on which no pixel exceeds the ink threshold
\* preprocessMnistFromCanvas returns 784 zeros and hasInk = false and does
\* not throw.
C9_Original ==
    (preOp # "none" /\ NoPixelExceedsThreshold(preCanvas)) =>
        BlankResult(preResult)

\* C9, amended: for a canvas on which no pixel exceeds the ink threshold,
\* and when the 2d contexts of the source canvas and of the preview canvas
\* are obtained, preprocessMnistFromCanvas returns 784 zeros and
\* hasInk = false and does not throw; when one of the two contexts is not
\* obtained it throws.
C9_BlankCanvas ==
    (preOp # "none" /\ NoPixelExceedsThreshold(preCanvas)) =>
        IF preCtx \in {"source", "preview"}
        THEN preResult.threw
        ELSE BlankResult(preResult)

\* A canvas with faint marks under the threshold was preprocessed.
C9_Witness ==
    /\ preOp # "none"
    /\ NoPixelExceedsThreshold(preCanvas)
    /\ DOMAIN preCanvas.painted # {}
    /\ preCtx = "none"
    /\ ~preResult.hasInk

\* The pixel (x, y) of the canvas is ink: 1 - red / 255 > 0.12
ExceedsThreshold(c, x, y) ==
    (White - RedAt(c, <<x, y>>)) * 100 > 12 * White

\* C20: in preprocessMnistFromCanvas a pixel counts as ink exactly when
\* 1 - red / 255 > 0.12, and when at least one ink pixel exists
\* (minX, minY, maxX, maxY) is the minimal rectangle enclosing all ink
\* pixels: every ink pixel lies inside it and each of its four edges
\* contains an ink pixel.  (The scan runs once the source canvas gave its
\* 2d context.)
C20_MinimalBox ==
    (preOp # "none" /\ preCtx # "source") =>
        LET c == preCanvas
            box == preResult.box
            xs == 0..(c.width - 1)
            ys == 0..(c.height - 1)
        IN  (\E x \in xs, y \in ys : ExceedsThreshold(c, x, y)) =>
              /\ \A x \in xs, y \in ys :
                   ExceedsThreshold(c, x, y) =>
                       /\ box.minX <= x /\ x <= box.maxX
                       /\ box.minY <= y /\ y <= box.maxY
              /\ box.minX \in xs /\ box.maxX \in xs
              /\ box.minY \in ys /\ box.maxY \in ys
              /\ \E y \in box.minY..box.maxY : ExceedsThreshold(c, box.minX, y)
              /\ \E y \in box.minY..box.maxY : ExceedsThreshold(c, box.maxX, y)
              /\ \E x \in box.minX..box.maxX : ExceedsThreshold(c, x, box.minY)
              /\ \E x \in box.minX..box.maxX : ExceedsThreshold(c, x, box.maxY)

\* A canvas with two ink pixels in different rows and columns and a faint
\* mark outside their rectangle was scanned.
C20_Witness ==
    /\ preOp # "none" /\ preCtx = "none"
    /\ preResult.box.minX < preResult.box.maxX
    /\ preResult.box.minY < preResult.box.maxY
    /\ \E q \in DOMAIN preCanvas.painted :
         /\ ~ExceedsThreshold(preCanvas, q[1], q[2])
         /\ (q[1] > preResult.box.maxX \/ q[2] > preResult.box.maxY
             \/ q[1] < preResult.box.minX \/ q[2] < preResult.box.minY)

----------------------------------------------------------------------------
(* Properties of HandwritingPage (checked under SpecHand)                  *)

\* C10: a call of recognize in which preprocessMnistFromCanvas reported
\* hasInk = false (the preview host then shows the black preview) hands no
\* tensor to the engine, leaves prediction = null and the probability list
\* empty, and leaves busy = false.
C10_SkipScoringOnBlank ==
    [][(Recognize /\ previewHost' = "black") =>
          /\ runTensor' = NoTensor
          /\ hPc' = "idle"
          /\ prediction' = NoDigit
          /\ probs' = <<>>
          /\ busy' = FALSE]_vars

\* recognize returned on a canvas that holds only faint marks.
C10_Witness ==
    /\ previewHost = "black"
    /\ DOMAIN canvas.painted # {}
    /\ prediction = NoDigit
    /\ ~busy

====
